---- MODULE Spec2Model ----
(***************************************************************************)
(* Model of the stock-analyzer report pipeline.                            *)
(*                                                                         *)
(*   SpecLLM    LLMClient.run_full_analysis / _call_api / _analyze_image / *)
(*              _assemble_report           (src/lib/llm_client.py)         *)
(*   SpecFile   FileProcessor.process_file (src/lib/file_processor.py)     *)
(*   SpecTicker the ticker from the text input to the components           *)
(*              (src/app.py and the constructors)                          *)
(*   SpecFetch  DataFetcher.get_stock_info / get_price_history /           *)
(*              get_financial_data         (src/lib/data_fetcher.py)       *)
(*                                                                         *)
(* Strings are modelled as sequences of tokens (each token a piece of      *)
(* text); string concatenation is \o.                                      *)
(***************************************************************************)
EXTENDS Integers, Sequences, FiniteSets, TLC

(***************************************************************************)
(* Bounds of the model.                                                    *)
(***************************************************************************)
\* longest supplemental_contents list passed to run_full_analysis
MaxItems == 2
\* most requests of one run that the hosted model fails
MaxFaults == 3

(***************************************************************************)
(* Program constants of LLMClient.                                         *)
(***************************************************************************)
\* self.call_delay
call_delay == 60
\* range(3) in _call_api
MaxAttempts == 3
\* time.sleep(65) in _call_api
RetrySleepSecs == 65
\* time.sleep(45) around supplemental items
SuppSleepSecs == 45
\* number of section calls (financial, technical, competitive, summary)
NumSections == 4

VARIABLES
    \* ---- LLMClient.run_full_analysis ----
    pc,                   \* position of the run
    pos,                  \* 1..4: section being requested, 4+i: supplemental item i
    attempt,              \* loop variable of _call_api
    exc,                  \* exception in flight ("none" when there is none)
    items,                \* supplemental_contents (<<>> models None and [])
    results,              \* the results dictionary (key -> string, absent keys unmapped)
    supplemental_outputs, \* the list supplemental_outputs
    \* ---- observation of the outbound traffic and of time.sleep ----
    outstanding,          \* requests sent and not yet returned or failed
    nreq,                 \* requests sent in this run
    callReqs,             \* requests sent by the current _call_api invocation
    ncalls,               \* invocations of _call_api in this run
    lastReqPos,           \* pos of the latest request (0: none yet)
    lastOutcome,          \* outcome of the latest request
    faults,               \* requests of this run that failed
    retries,              \* requests of this run that were sent as a retry
    sleptSince,           \* seconds slept since the latest request
    gap,                  \* seconds slept between the two latest requests
    requested,            \* positions for which a request was sent
    failedAt,             \* positions whose request sequence ended in an exception
    prompt,               \* the prompt of the request code entered last
    slept,                \* seconds slept in this run so far
    \* ---- FileProcessor.process_file ----
    fpc,                  \* "idle", "called", "returned" or "raised"
    filename,             \* the filename argument, a sequence of characters
    contentForm,          \* file_content: "bytes", "binary_stream" or "text_stream"
    lib,                  \* what the parsing library does with the bytes
    result,               \* the dictionary process_file returns
    extractionFailed,     \* the extraction of the file's content failed
    \* ---- the ticker on its way through main and run_analysis (app.py) ----
    tpc,                  \* position in main / run_analysis
    entered,              \* the text typed into the "Stock Ticker" input
    appTicker,            \* main: ticker
    dfTicker,             \* DataFetcher.ticker
    cbTicker,             \* ChartBuilder.ticker
    llmTicker,            \* the ticker argument of run_full_analysis
    rgTicker,             \* ReportGenerator.ticker
    \* ---- DataFetcher ----
    info,                 \* self._info: <<>> for None, <<d>> for the dictionary d
    history,              \* self._history: "None", "empty" or "rows"
    financials,           \* self._financials: <<>> for None, <<d>> for the dictionary d
    fcalls,               \* public methods called on this DataFetcher so far
    lastOp,               \* the method that returned last
    ret,                  \* what it returned
    failedFetch,          \* a fetch of that call failed
    stmtReads,            \* times the three statements were read from the API
    stmtOutcomes,         \* what these reads did: <<>>, or <<income, balance, cash flow>>
    \* ---- main and run_analysis (app.py) ----
    apc,                  \* position in main / run_analysis / display_report
    apiKey,               \* st.secrets: "absent", "empty" or "set"
    pressed,              \* the Generate button was pressed in this script run
    tickerText,           \* the text in the "Stock Ticker" input
    companyText,          \* the text in the "Company Name" input
    uploaded_files,       \* names of the uploaded files, in upload order
    processed_files,      \* results of process_multiple_files so far
    supplemental_contents,\* run_analysis: supplemental_contents
    shown,                \* what the page shows, in order
    llmCalls,             \* calls of llm_client.run_full_analysis
    llmArg,               \* its supplemental_contents argument: <<>> for None, <<l>> for the list l
    chartsBuilt,          \* ChartBuilder objects constructed by run_analysis
    \* ---- the price table and its moving averages ----
    closes,               \* the Close column of the price history, in cents
    days,                 \* the days argument of format_price_data_for_llm
    dfColumns,            \* format_price_data_for_llm: the columns added to df_full
    priceReport,          \* what format_price_data_for_llm returned
    chartDf,              \* ChartBuilder.df: <<>> before construction, <<columns>> after
    chartSummary,         \* what get_chart_summary returned
    \* ---- ReportGenerator.generate_report_for_streamlit ----
    rpc,                  \* "idle", "called", "returned" or "converted"
    report_content,       \* the report_content argument, a text
    chart_figure,         \* the chart_figure argument: <<>> for None, <<"figure">>
    toHtml,               \* what chart_figure.to_html does: "ok" or "raises"
    report_components,    \* the returned dictionary
    table_text            \* what _convert_tables returned: <<>> before the call, <<text>> after

llmVars == <<pc, pos, attempt, exc, items, results, supplemental_outputs,
             outstanding, nreq, callReqs, ncalls, lastReqPos, lastOutcome,
             faults, retries, sleptSince, gap, requested, failedAt, prompt, slept>>

fileVars == <<fpc, filename, contentForm, lib, result, extractionFailed>>

tickerVars == <<tpc, entered, appTicker, dfTicker, cbTicker, llmTicker, rgTicker>>

fetchVars == <<info, history, financials, fcalls, lastOp, ret, failedFetch, stmtReads,
               stmtOutcomes>>

appVars == <<apc, apiKey, pressed, tickerText, companyText, uploaded_files,
             processed_files, supplemental_contents, shown, llmCalls, llmArg,
             chartsBuilt>>

priceVars == <<closes, days, dfColumns, priceReport, chartDf, chartSummary>>

reportVars == <<rpc, report_content, chart_figure, toHtml, report_components, table_text>>

vars == <<llmVars, fileVars, tickerVars, fetchVars, appVars, priceVars, reportVars>>

\* what the actions of one component leave alone
nonLLMVars == <<fileVars, tickerVars, fetchVars, appVars, priceVars, reportVars>>
nonFileVars == <<llmVars, tickerVars, fetchVars, appVars, priceVars, reportVars>>
nonTickerVars == <<llmVars, fileVars, fetchVars, appVars, priceVars, reportVars>>
nonFetchVars == <<llmVars, fileVars, tickerVars, appVars, priceVars, reportVars>>
nonAppVars == <<llmVars, fileVars, tickerVars, fetchVars, priceVars, reportVars>>
nonPriceVars == <<llmVars, fileVars, tickerVars, fetchVars, appVars, reportVars>>
nonReportVars == <<llmVars, fileVars, tickerVars, fetchVars, appVars, priceVars>>
\* what the steps of run_analysis that call into the DataFetcher or the
\* FileProcessor leave alone
nonAppFetchVars == <<llmVars, fileVars, tickerVars, priceVars, reportVars>>
nonAppFileVars == <<llmVars, tickerVars, fetchVars, priceVars, reportVars>>

(***************************************************************************)
(* Inputs.                                                                 *)
(***************************************************************************)
\* texts the hosted model may answer with
Texts == { <<"t1">>, <<"t2", "## Competitive Moat", "t3", "t4">> }

\* exceptions of client.messages.create: anthropic.RateLimitError, or any other
RateLimitError == "rate_limit_error"
OtherError == "api_error"

\* entries of supplemental_contents, as FileProcessor.process_file produces them
ItemSet == { [type |-> "image", name |-> "chart.png", content |-> <<"image bytes">>],
             [type |-> "text",  name |-> "notes.txt", content |-> <<"d1", "d2">>] }

ItemLists == UNION { [1..n -> ItemSet] : n \in 0..MaxItems }


(***************************************************************************)
(* Dictionaries and strings.                                               *)
(***************************************************************************)
\* d[k] = v
Put(d, k, v) == [x \in (DOMAIN d) \cup {k} |-> IF x = k THEN v ELSE d[x]]

\* d.get(k, default)
Get(d, k, default) == IF k \in DOMAIN d THEN d[k] ELSE default

\* sep.join(parts)
RECURSIVE Join(_, _)
Join(parts, sep) ==
    IF parts = <<>> THEN <<>>
    ELSE IF Len(parts) = 1 THEN parts[1]
    ELSE parts[1] \o sep \o Join(Tail(parts), sep)

\* the tokens of s from index i on
From(s, i) == SubSeq(s, i, Len(s))

\* index of the first occurrence of token tok in s at or after index i, 0 when absent
RECURSIVE Find(_, _, _)
Find(s, tok, i) ==
    IF i > Len(s) THEN 0
    ELSE IF s[i] = tok THEN i
    ELSE Find(s, tok, i + 1)

(***************************************************************************)
(* LLMClient: sections, placeholders, report.                              *)
(***************************************************************************)
\* the results key written by the p-th section call
SectionKey(p) ==
    CASE p = 1 -> "financials"
      [] p = 2 -> "technical"
      [] p = 3 -> "competitive"
      [] p = 4 -> "summary"

\* the string an except clause of run_full_analysis stores for position p
Placeholder(p, e) ==
    CASE p = 1 -> <<"[Financial analysis failed: ", e, "]">>
      [] p = 2 -> <<"[Technical analysis failed: ", e, "]">>
      [] p = 3 -> <<"[Competitive analysis failed: ", e, "]">>
      [] p = 4 -> <<"[Summary failed: ", e, "]">>
      [] OTHER -> <<"[Failed: ", e, "]">>

\* the string the except clause of _analyze_image returns
ImagePlaceholder(e) == <<"[Image analysis failed: ", e, "]">>

\* Catches narrowed to `except anthropic.RateLimitError`
CatchesRateLimitOnly(e) == e = RateLimitError

\* `except Exception` of run_full_analysis: which exceptions it catches
Catches(e) == e \in {RateLimitError, OtherError}

Separator == "\n\n---\n\n"
NoSupplemental == "No supplemental materials provided."
Disclaimer == "*Disclaimer*\n"

\* AssembleReport with the financial and the technical result exchanged
AssembleReportSwapped(ticker, company_name, res) ==
    LET supplemental == Get(res, "supplemental", <<>>)
        supplemental_section ==
            IF supplemental # <<>> THEN supplemental ELSE <<NoSupplemental>>
    IN  <<"# ", company_name, " (", ticker, ")\n**Investment Research Report**\n**Generated:** ",
          "<date>", Separator>>
        \o <<"## Executive Summary", "\n\n">>
        \o Get(res, "summary", <<"[Summary not available]">>)
        \o <<Separator, "## Financial Analysis", "\n\n">>
        \o Get(res, "technical", <<"[Technical analysis not available]">>)
        \o <<Separator, "## Technical Analysis", "\n\n">>
        \o Get(res, "financials", <<"[Financial analysis not available]">>)
        \o <<Separator, "## Competitive Position & Moat", "\n\n">>
        \o Get(res, "competitive", <<"[Competitive analysis not available]">>)
        \o <<Separator, "## Supplemental Analysis", "\n\n">>
        \o supplemental_section
        \o <<Separator, Disclaimer>>

\* _assemble_report(ticker, company_name, results)
AssembleReport(ticker, company_name, res) ==
    LET supplemental == Get(res, "supplemental", <<>>)
        supplemental_section ==
            IF supplemental # <<>> THEN supplemental ELSE <<NoSupplemental>>
    IN  <<"# ", company_name, " (", ticker, ")\n**Investment Research Report**\n**Generated:** ",
          "<date>", Separator>>
        \o <<"## Executive Summary", "\n\n">>
        \o Get(res, "summary", <<"[Summary not available]">>)
        \o <<Separator, "## Financial Analysis", "\n\n">>
        \o Get(res, "financials", <<"[Financial analysis not available]">>)
        \o <<Separator, "## Technical Analysis", "\n\n">>
        \o Get(res, "technical", <<"[Technical analysis not available]">>)
        \o <<Separator, "## Competitive Position & Moat", "\n\n">>
        \o Get(res, "competitive", <<"[Competitive analysis not available]">>)
        \o <<Separator, "## Supplemental Analysis", "\n\n">>
        \o supplemental_section
        \o <<Separator, Disclaimer>>

MoatMarker == "## Competitive Moat"

\* Overview keeping the part after the marker
OverviewAfterMarker(res) ==
    LET competitive == Get(res, "competitive", <<>>)
        i == Find(competitive, MoatMarker, 1)
    IN  IF i > 0 THEN From(competitive, i + 1) ELSE <<>>

\* results["overview"]: competitive.split(marker)[0] if marker in competitive else ""
Overview(res) ==
    LET competitive == Get(res, "competitive", <<>>)
        i == Find(competitive, MoatMarker, 1)
    IN  IF i > 0 THEN SubSeq(competitive, 1, i - 1) ELSE <<>>

\* the item analysed at position p (p > NumSections)
ItemAt(p) == items[p - NumSections]

\* the request at pos is the one of _analyze_image
IsImage == pos > NumSections /\ ItemAt(pos).type = "image"


(***************************************************************************)
(* Prompts (run_full_analysis).                                            *)
(*                                                                         *)
(* A token stands for a piece of text of the length CharLen gives it.  The *)
(* texts of the model have token boundaries wherever the code cuts a text, *)
(* so that a cut never falls inside a token.                               *)
(***************************************************************************)
FinCut == 1500
TaCut == 1000
CompCut == 1000
DocCut == 3000

\* len(tok)
CharLen(tok) ==
    CASE tok = "t1" -> 2
      [] tok = "t2" -> 981
      [] tok = MoatMarker -> 19
      [] tok = "t3" -> 500
      [] tok = "t4" -> 1
      [] tok = "d1" -> 3000
      [] tok = "d2" -> 1
      [] OTHER -> 30

\* len(s)
RECURSIVE CharLength(_)
CharLength(s) == IF s = <<>> THEN 0 ELSE CharLen(Head(s)) + CharLength(Tail(s))

\* s[:n] leaving s whole
TruncateNever(s, n) == s

\* s[:n]
RECURSIVE Truncate(_, _)
Truncate(s, n) ==
    IF s = <<>> \/ CharLen(Head(s)) > n THEN <<>>
    ELSE <<Head(s)>> \o Truncate(Tail(s), n - CharLen(Head(s)))

\* summary_prompt
SummaryPrompt(res) ==
    <<"Based on this analysis of ", "Company", " (", "TICK", ")",
      "Financial Analysis Summary:\n">>
    \o Truncate(Get(res, "financials", <<>>), FinCut)
    \o <<"Technical Analysis Summary:\n">>
    \o Truncate(Get(res, "technical", <<>>), TaCut)
    \o <<"Competitive Analysis Summary:\n">>
    \o Truncate(Get(res, "competitive", <<>>), CompCut)
    \o <<"Provide:">>

\* the prompt for a supplemental document
DocumentPrompt(item) ==
    <<"Analyze this document for ", "Company", " (", "TICK", ")", "\n\n">>
    \o Truncate(item.content, DocCut)
    \o <<"Provide:">>

\* the content sent by _analyze_image
ImagePrompt(item) ==
    <<"image">> \o item.content \o <<"Analyze this image for ", "Company", " (", "TICK", ")">>

\* the prompt built before the request code for position p is entered
Prompt(p) ==
    CASE p = 1 -> <<"financial_prompt", "Company", "TICK", "financial_data">>
      [] p = 2 -> <<"ta_prompt", "Company", "TICK", "price_data">>
      [] p = 3 -> <<"moat_prompt", "Company", "TICK">>
      [] p = 4 -> SummaryPrompt(results)
      [] OTHER -> IF ItemAt(p).type = "image" THEN ImagePrompt(ItemAt(p))
                  ELSE DocumentPrompt(ItemAt(p))

(***************************************************************************)
(* The state of a component that takes no part in a specification.         *)
(***************************************************************************)
LLMIdle ==
    /\ pc = "idle"
    /\ pos = 0
    /\ attempt = 0
    /\ exc = "none"
    /\ items = <<>>
    /\ results = <<>>
    /\ supplemental_outputs = <<>>
    /\ outstanding = 0
    /\ nreq = 0
    /\ callReqs = 0
    /\ ncalls = 0
    /\ lastReqPos = 0
    /\ lastOutcome = "none"
    /\ faults = 0
    /\ retries = 0
    /\ sleptSince = 0
    /\ gap = 0
    /\ requested = {}
    /\ failedAt = {}
    /\ prompt = <<>>
    /\ slept = 0

FileIdle ==
    /\ fpc = "idle"
    /\ filename = <<>>
    /\ contentForm = "bytes"
    /\ lib = "ok"
    /\ result = <<>>
    /\ extractionFailed = FALSE

TickerIdle ==
    /\ tpc = "idle"
    /\ entered = <<>>
    /\ appTicker = <<>>
    /\ dfTicker = <<>>
    /\ cbTicker = <<>>
    /\ llmTicker = <<>>
    /\ rgTicker = <<>>

FetchIdle ==
    /\ info = <<>>
    /\ history = "None"
    /\ financials = <<>>
    /\ fcalls = 0
    /\ lastOp = "idle"
    /\ ret = "None"
    /\ failedFetch = FALSE
    /\ stmtReads = 0
    /\ stmtOutcomes = <<>>

PriceIdle ==
    /\ closes = <<>>
    /\ days = 0
    /\ dfColumns = <<>>
    /\ priceReport = <<>>
    /\ chartDf = <<>>
    /\ chartSummary = <<>>

ReportIdle ==
    /\ rpc = "idle"
    /\ report_content = <<>>
    /\ chart_figure = <<>>
    /\ toHtml = "ok"
    /\ report_components = <<>>
    /\ table_text = <<>>

AppIdle ==
    /\ apc = "idle"
    /\ apiKey = "set"
    /\ pressed = FALSE
    /\ tickerText = <<>>
    /\ companyText = <<>>
    /\ uploaded_files = <<>>
    /\ processed_files = <<>>
    /\ supplemental_contents = <<>>
    /\ shown = <<>>
    /\ llmCalls = 0
    /\ llmArg = <<>>
    /\ chartsBuilt = 0

(***************************************************************************)
(* LLMClient.run_full_analysis as a state machine.                         *)
(*                                                                         *)
(* pc: "start"       before the first statement                            *)
(*     "send"        about to call client.messages.create for pos          *)
(*     "inflight"    blocked in client.messages.create                     *)
(*     "retry_sleep" in `except RateLimitError` of _call_api, attempt < 2  *)
(*     "raised"      an exception left _call_api                           *)
(*     "delay"       at time.sleep(self.call_delay) after a section        *)
(*     "supp"        at `if supplemental_contents:`                        *)
(*     "item_next"   at `if i < len(supplemental_contents) - 1:`           *)
(*     "assemble"    at results["supplemental"] = ...                      *)
(*     "done"        returned results                                      *)
(*     "propagated"  an exception left run_full_analysis                   *)
(***************************************************************************)
InitLLM ==
    /\ PriceIdle
    /\ ReportIdle
    /\ AppIdle
    /\ FileIdle
    /\ TickerIdle
    /\ FetchIdle
    /\ pc = "start"
    /\ pos = 0
    /\ attempt = 0
    /\ exc = "none"
    /\ items \in ItemLists
    /\ results = <<>>
    /\ supplemental_outputs = <<>>
    /\ outstanding = 0
    /\ nreq = 0
    /\ callReqs = 0
    /\ ncalls = 0
    /\ lastReqPos = 0
    /\ lastOutcome = "none"
    /\ faults = 0
    /\ retries = 0
    /\ sleptSince = 0
    /\ gap = 0
    /\ requested = {}
    /\ failedAt = {}
    /\ prompt = <<>>
    /\ slept = 0

\* MayRetry with the comparison off by one
MayRetryOffByOne(a) == a <= 2

\* _call_api: `if attempt < 2` in `except anthropic.RateLimitError`
MayRetry(a) == a < 2

\* Enter with the technical and the competitive section exchanged
EnterOutOfOrder(p) ==
    /\ pos' = (IF p = 2 THEN 3 ELSE IF p = 3 THEN 2 ELSE p)
    /\ prompt' = Prompt(IF p = 2 THEN 3 ELSE IF p = 3 THEN 2 ELSE p)
    /\ attempt' = 0
    /\ callReqs' = 0
    /\ ncalls' = IF p > NumSections /\ ItemAt(p).type = "image" THEN ncalls ELSE ncalls + 1
    /\ pc' = "send"

\* entering the request code for position p: _call_api (attempt = 0) or _analyze_image
Enter(p) ==
    /\ pos' = p
    /\ prompt' = Prompt(p)
    /\ attempt' = 0
    /\ callReqs' = 0
    /\ ncalls' = IF p > NumSections /\ ItemAt(p).type = "image" THEN ncalls ELSE ncalls + 1
    /\ pc' = "send"

\* time.sleep(secs)
Sleep(secs) == sleptSince' = sleptSince + secs /\ slept' = slept + secs

\* Store leaving the section sequence one section early
StoreSkippingSummary(value) ==
    IF pos <= NumSections
    THEN /\ results' = Put(results, SectionKey(pos), value)
         /\ pc' = IF pos < NumSections - 1 THEN "delay" ELSE "supp"
         /\ UNCHANGED supplemental_outputs
    ELSE /\ supplemental_outputs' =
                Append(supplemental_outputs,
                       <<"### ", ItemAt(pos).name, "\n">> \o value)
         /\ pc' = "item_next"
         /\ UNCHANGED results

\* the value of the request code for pos is stored: results[key] = value for a
\* section, supplemental_outputs.append(f"### {name}\n{output}") for an item
Store(value) ==
    IF pos <= NumSections
    THEN /\ results' = Put(results, SectionKey(pos), value)
         /\ pc' = IF pos < NumSections THEN "delay" ELSE "supp"
         /\ UNCHANGED supplemental_outputs
    ELSE /\ supplemental_outputs' =
                Append(supplemental_outputs,
                       <<"### ", ItemAt(pos).name, "\n">> \o value)
         /\ pc' = "item_next"
         /\ UNCHANGED results

\* results = {}; the financial prompt is built; _call_api is entered
Start ==
    /\ pc = "start"
    /\ Enter(1)
    /\ UNCHANGED <<exc, items, results, supplemental_outputs, outstanding, nreq,
                   lastReqPos, lastOutcome, sleptSince, gap, requested, failedAt, faults, retries>>
    /\ UNCHANGED slept
    /\ UNCHANGED nonLLMVars

\* client.messages.create(...) is called: the request goes out and the run blocks
Send ==
    /\ pc = "send"
    /\ pc' = "inflight"
    /\ outstanding' = outstanding + 1
    /\ nreq' = nreq + 1
    /\ callReqs' = callReqs + 1
    /\ lastReqPos' = pos
    /\ gap' = sleptSince
    /\ sleptSince' = 0
    /\ requested' = requested \cup {pos}
    /\ UNCHANGED <<pos, attempt, exc, items, results, supplemental_outputs,
                   ncalls, lastOutcome, failedAt, faults, retries>>
    /\ UNCHANGED prompt
    /\ UNCHANGED slept
    /\ UNCHANGED nonLLMVars

\* the request returns a response: _call_api / _analyze_image return its text
RespondOk ==
    /\ pc = "inflight"
    /\ \E t \in Texts : Store(t)
    /\ outstanding' = outstanding - 1
    /\ lastOutcome' = "ok"
    /\ UNCHANGED <<pos, attempt, exc, items, nreq, callReqs, ncalls, lastReqPos,
                   sleptSince, gap, requested, failedAt, faults, retries>>
    /\ UNCHANGED prompt
    /\ UNCHANGED slept
    /\ UNCHANGED nonLLMVars

\* the request raises anthropic.RateLimitError
RespondRateLimit ==
    /\ pc = "inflight"
    /\ faults < MaxFaults
    /\ faults' = faults + 1
    /\ outstanding' = outstanding - 1
    /\ lastOutcome' = "rate_limit"
    /\ IF IsImage
       THEN \* except Exception of _analyze_image
            /\ Store(ImagePlaceholder(RateLimitError))
            /\ failedAt' = failedAt \cup {pos}
            /\ UNCHANGED exc
       ELSE IF MayRetry(attempt)
       THEN \* except RateLimitError, attempt < 2
            /\ pc' = "retry_sleep"
            /\ UNCHANGED <<exc, results, supplemental_outputs, failedAt>>
       ELSE \* raise
            /\ pc' = "raised"
            /\ exc' = RateLimitError
            /\ UNCHANGED <<results, supplemental_outputs, failedAt>>
    /\ UNCHANGED <<pos, attempt, items, nreq, callReqs, ncalls, lastReqPos,
                   sleptSince, gap, requested, retries>>
    /\ UNCHANGED prompt
    /\ UNCHANGED slept
    /\ UNCHANGED nonLLMVars

\* RespondError retrying the request as after a rate-limit error
RespondErrorRetried ==
    /\ pc = "inflight"
    /\ faults < MaxFaults
    /\ faults' = faults + 1
    /\ outstanding' = outstanding - 1
    /\ lastOutcome' = "error"
    /\ IF IsImage
       THEN /\ Store(ImagePlaceholder(OtherError))
            /\ failedAt' = failedAt \cup {pos}
            /\ UNCHANGED exc
       ELSE IF MayRetry(attempt)
       THEN /\ pc' = "retry_sleep"
            /\ UNCHANGED <<exc, results, supplemental_outputs, failedAt>>
       ELSE /\ pc' = "raised"
            /\ exc' = OtherError
            /\ UNCHANGED <<results, supplemental_outputs, failedAt>>
    /\ UNCHANGED <<pos, attempt, items, nreq, callReqs, ncalls, lastReqPos,
                   sleptSince, gap, requested, retries>>
    /\ UNCHANGED prompt
    /\ UNCHANGED slept
    /\ UNCHANGED nonLLMVars

\* the request raises any other exception
RespondError ==
    /\ pc = "inflight"
    /\ faults < MaxFaults
    /\ faults' = faults + 1
    /\ outstanding' = outstanding - 1
    /\ lastOutcome' = "error"
    /\ IF IsImage
       THEN /\ Store(ImagePlaceholder(OtherError))
            /\ failedAt' = failedAt \cup {pos}
            /\ UNCHANGED exc
       ELSE \* not caught in _call_api
            /\ pc' = "raised"
            /\ exc' = OtherError
            /\ UNCHANGED <<results, supplemental_outputs, failedAt>>
    /\ UNCHANGED <<pos, attempt, items, nreq, callReqs, ncalls, lastReqPos,
                   sleptSince, gap, requested, retries>>
    /\ UNCHANGED prompt
    /\ UNCHANGED slept
    /\ UNCHANGED nonLLMVars

\* _call_api: time.sleep(65); continue. The for loop then takes the next attempt,
\* or, when range(3) is exhausted, falls through to return "[API call failed]"
RetrySleep ==
    /\ pc = "retry_sleep"
    /\ Sleep(RetrySleepSecs)
    /\ attempt' = attempt + 1
    /\ IF attempt + 1 < MaxAttempts
       THEN /\ pc' = "send"
            /\ retries' = retries + 1
            /\ UNCHANGED <<results, supplemental_outputs>>
       ELSE /\ Store(<<"[API call failed]">>)
            /\ UNCHANGED retries
    /\ UNCHANGED <<pos, exc, items, outstanding, nreq, callReqs, ncalls,
                   lastReqPos, lastOutcome, gap, requested, failedAt, faults>>
    /\ UNCHANGED prompt
    /\ UNCHANGED nonLLMVars

\* the try statement around _call_api: `except Exception as e` stores the placeholder
Except ==
    /\ pc = "raised"
    /\ IF Catches(exc)
       THEN /\ Store(Placeholder(pos, exc))
            /\ exc' = "none"
            /\ failedAt' = failedAt \cup {pos}
       ELSE /\ pc' = "propagated"
            /\ UNCHANGED <<exc, results, supplemental_outputs, failedAt>>
    /\ UNCHANGED <<pos, attempt, items, outstanding, nreq, callReqs, ncalls,
                   lastReqPos, lastOutcome, sleptSince, gap, requested, faults, retries>>
    /\ UNCHANGED prompt
    /\ UNCHANGED slept
    /\ UNCHANGED nonLLMVars

\* time.sleep(self.call_delay) after sections 1..3, then the next section's call
Delay ==
    /\ pc = "delay"
    /\ Sleep(call_delay)
    /\ Enter(pos + 1)
    /\ UNCHANGED <<exc, items, results, supplemental_outputs, outstanding, nreq,
                   lastReqPos, lastOutcome, gap, requested, failedAt, faults, retries>>
    /\ UNCHANGED nonLLMVars

\* SuppSleep without its time.sleep(45)
SuppSleepMissing ==
    /\ pc = "supp"
    /\ items # <<>>
    /\ Enter(NumSections + 1)
    /\ UNCHANGED <<exc, items, results, supplemental_outputs, outstanding, nreq,
                   lastReqPos, lastOutcome, gap, requested, failedAt, faults,
                   retries, sleptSince>>
    /\ UNCHANGED slept
    /\ UNCHANGED nonLLMVars

\* `if supplemental_contents:` holds: time.sleep(45), first loop iteration
SuppSleep ==
    /\ pc = "supp"
    /\ items # <<>>
    /\ Sleep(SuppSleepSecs)
    /\ Enter(NumSections + 1)
    /\ UNCHANGED <<exc, items, results, supplemental_outputs, outstanding, nreq,
                   lastReqPos, lastOutcome, gap, requested, failedAt, faults, retries>>
    /\ UNCHANGED nonLLMVars

\* `if supplemental_contents:` fails (None or empty list)
SkipSupp ==
    /\ pc = "supp"
    /\ items = <<>>
    /\ pc' = "assemble"
    /\ UNCHANGED <<pos, attempt, exc, items, results, supplemental_outputs,
                   outstanding, nreq, callReqs, ncalls, lastReqPos, lastOutcome,
                   sleptSince, gap, requested, failedAt, faults, retries>>
    /\ UNCHANGED prompt
    /\ UNCHANGED slept
    /\ UNCHANGED nonLLMVars

\* ItemNext sleeping after the last item too
ItemNextSleepingAfterLast ==
    /\ pc = "item_next"
    /\ IF (pos - NumSections) - 1 < Len(items) - 1
       THEN /\ Sleep(SuppSleepSecs)
            /\ Enter(pos + 1)
       ELSE /\ pc' = "assemble"
            /\ Sleep(SuppSleepSecs)
            /\ UNCHANGED <<pos, attempt, callReqs, ncalls, prompt>>
    /\ UNCHANGED <<exc, items, results, supplemental_outputs, outstanding, nreq,
                   lastReqPos, lastOutcome, gap, requested, failedAt, faults, retries>>
    /\ UNCHANGED nonLLMVars

\* `if i < len(supplemental_contents) - 1: time.sleep(45)`, then the next iteration
ItemNext ==
    /\ pc = "item_next"
    /\ IF (pos - NumSections) - 1 < Len(items) - 1
       THEN /\ Sleep(SuppSleepSecs)
            /\ Enter(pos + 1)
       ELSE /\ pc' = "assemble"
            /\ UNCHANGED <<pos, attempt, callReqs, ncalls, sleptSince, prompt, slept>>
    /\ UNCHANGED <<exc, items, results, supplemental_outputs, outstanding, nreq,
                   lastReqPos, lastOutcome, gap, requested, failedAt, faults, retries>>
    /\ UNCHANGED nonLLMVars

\* results["supplemental"], ["final_report"], ["overview"], ["sentiment"]; return
Assemble ==
    /\ pc = "assemble"
    /\ LET r1 == Put(results, "supplemental",
                     IF supplemental_outputs # <<>>
                     THEN Join(supplemental_outputs, <<"\n\n">>) ELSE <<>>)
           r2 == Put(r1, "final_report", AssembleReport("TICK", "Company", r1))
           r3 == Put(r2, "overview", Overview(r2))
           r4 == Put(r3, "sentiment",
                     <<"See Summary section for market outlook and catalysts.">>)
       IN  results' = r4
    /\ pc' = "done"
    /\ UNCHANGED <<pos, attempt, exc, items, supplemental_outputs, outstanding,
                   nreq, callReqs, ncalls, lastReqPos, lastOutcome, sleptSince,
                   gap, requested, failedAt, faults, retries>>
    /\ UNCHANGED prompt
    /\ UNCHANGED slept
    /\ UNCHANGED nonLLMVars

NextLLM ==
    \/ Start
    \/ Send
    \/ RespondOk
    \/ RespondRateLimit
    \/ RespondError
    \/ RetrySleep
    \/ Except
    \/ Delay
    \/ SuppSleep
    \/ SkipSupp
    \/ ItemNext
    \/ Assemble

SpecLLM == InitLLM /\ [][NextLLM]_vars

(***************************************************************************)
(* Properties of LLMClient (checked under SpecLLM).                        *)
(***************************************************************************)
\* every position of the run: the four sections, then the supplemental items
AllPositions == 1..(NumSections + Len(items))

C2_SleepBetweenRequests == nreq >= 2 => gap >= 45

C2_Witness ==
    /\ pc = "inflight"
    /\ pos = NumSections + 2
    /\ gap = 45
    /\ retries >= 1
    /\ failedAt # {}

\* C3: one invocation of _call_api sends at most 3 requests; a second or third
\* request follows a rate-limit error of the previous one and a sleep of
\* exactly 65 seconds; after the third request the invocation neither sends
\* nor sleeps again, and it never prepares a retry for an image request.
C3_CallApiAtMostThree ==
    /\ callReqs <= 3
    /\ (pc \in {"send", "retry_sleep"} => callReqs < 3)
    /\ (pc = "inflight" /\ callReqs >= 2 => lastOutcome = "rate_limit" /\ gap = 65)
    /\ (pc = "retry_sleep" => ~IsImage /\ lastOutcome = "rate_limit")

C3_Witness ==
    /\ pc = "raised"
    /\ exc = RateLimitError
    /\ callReqs = 3
    /\ attempt = 2

FailurePrefixes ==
    { "[Financial analysis failed: ", "[Technical analysis failed: ",
      "[Competitive analysis failed: ", "[Summary failed: ", "[Failed: ",
      "[Image analysis failed: " }

\* s is a bracketed placeholder naming a failure
IsPlaceholder(s) ==
    /\ Len(s) = 3
    /\ s[1] \in FailurePrefixes
    /\ s[2] \in {RateLimitError, OtherError}
    /\ s[3] = "]"

\* the entry stored for position p: results[key], or the output of item p - 4
\* (the part after the "### name\n" heading)
EntryAt(p) ==
    IF p <= NumSections THEN results[SectionKey(p)]
    ELSE From(supplemental_outputs[p - NumSections], 4)

\* C4: no exception leaves run_full_analysis, and a run in which a request
\* has failed or an exception has left _call_api can go on; in a finished run every position was requested, every failed
\* position holds a bracketed placeholder and every other position a text of
\* the hosted model.
C4_FailuresContained ==
    /\ pc # "propagated"
    /\ (pc = "raised" \/ (lastOutcome # "ok" /\ pc \in {"delay", "supp", "item_next"})
            => ENABLED NextLLM)
    /\ (pc = "done" =>
            /\ requested = AllPositions
            /\ \A p \in AllPositions :
                  IF p \in failedAt THEN IsPlaceholder(EntryAt(p))
                  ELSE EntryAt(p) \in Texts)

C4_Witness ==
    /\ pc = "done"
    /\ Len(items) = 2
    /\ 1 \in failedAt
    /\ NumSections + 1 \in failedAt
    /\ Cardinality(failedAt) = 3

\* the token s occurs in none of the stored results
NowhereStored(s) ==
    /\ \A k \in DOMAIN results :
           \A i \in 1..Len(results[k]) : results[k][i] # s
    /\ \A j \in 1..Len(supplemental_outputs) :
           \A i \in 1..Len(supplemental_outputs[j]) : supplemental_outputs[j][i] # s

\* C16: every outcome of _call_api is the text of its first successful
\* request or an exception.  A request is sent again only after a
\* rate-limit error and a sleep, at most twice; an error that is not a
\* rate-limit error leaves _call_api at once, the request that raised it
\* being the call's last; a rate-limit error leaves it exactly when it is
\* the third of the call; a call that returned holds the text of its last
\* request, which succeeded; and "[API call failed]" is stored nowhere.
C16_CallApiOutcomes ==
    /\ (pc = "raised" =>
            /\ ~IsImage
            /\ exc \in {RateLimitError, OtherError}
            /\ (exc = OtherError => lastOutcome = "error")
            /\ (exc = RateLimitError => lastOutcome = "rate_limit" /\ callReqs = MaxAttempts))
    /\ (pc = "retry_sleep" =>
            /\ lastOutcome = "rate_limit"
            /\ callReqs = attempt + 1
            /\ attempt + 1 < MaxAttempts)
    /\ (pc = "send" /\ callReqs >= 1 => lastOutcome = "rate_limit")
    /\ (pc \in {"delay", "supp", "item_next"} /\ ~IsImage /\ pos \notin failedAt =>
            /\ lastOutcome = "ok"
            /\ lastReqPos = pos
            /\ outstanding = 0
            /\ EntryAt(pos) \in Texts)
    /\ NowhereStored("[API call failed]")

\* an error that is not a rate-limit error leaves _call_api after the
\* call's only request
C16_Witness ==
    /\ pc = "raised"
    /\ exc = OtherError
    /\ callReqs = 1
    /\ ~IsImage

\* a is the beginning of b
IsPrefix(a, b) == Len(a) <= Len(b) /\ SubSeq(b, 1, Len(a)) = a

\* part is whole cut to its first n characters
IsCut(part, whole, n) ==
    /\ IsPrefix(part, whole)
    /\ CharLength(part) = (IF CharLength(whole) < n THEN CharLength(whole) ELSE n)

\* the tokens of pr between the token after and the next token before
PromptPart(pr, after, before) ==
    LET i == Find(pr, after, 1)
        j == Find(pr, before, i)
    IN  SubSeq(pr, i + 1, j - 1)

\* the request code for pos is running
InCall == pc \in {"send", "inflight", "retry_sleep", "raised"}

\* C19: while the summary request is prepared, in flight or retried, its
\* prompt holds, besides fixed text, exactly the financial result of this
\* run cut to 1500 characters and the technical and the competitive result
\* cut to 1000 characters each (placeholders like texts); no supplemental
\* item has been requested or stored by then, and every item is analysed
\* only once the summary is stored; the prompt for a supplemental document
\* holds the document's content cut to 3000 characters.
C19_SummaryFromThreeSections ==
    /\ (pos = NumSections /\ InCall =>
            /\ {"financials", "technical", "competitive"} \subseteq DOMAIN results
            /\ "summary" \notin DOMAIN results
            /\ LET fin  == PromptPart(prompt, "Financial Analysis Summary:\n",
                                      "Technical Analysis Summary:\n")
                   ta   == PromptPart(prompt, "Technical Analysis Summary:\n",
                                      "Competitive Analysis Summary:\n")
                   comp == PromptPart(prompt, "Competitive Analysis Summary:\n", "Provide:")
               IN  /\ IsCut(fin, results["financials"], FinCut)
                   /\ IsCut(ta, results["technical"], TaCut)
                   /\ IsCut(comp, results["competitive"], CompCut)
                   /\ Len(prompt) = 9 + Len(fin) + Len(ta) + Len(comp)
            /\ supplemental_outputs = <<>>
            /\ requested \subseteq 1..NumSections)
    /\ (pos > NumSections => "summary" \in DOMAIN results)
    /\ (pos > NumSections /\ ~IsImage /\ InCall =>
            IsCut(PromptPart(prompt, "\n\n", "Provide:"), ItemAt(pos).content, DocCut))

\* the summary request in flight in a run with a supplemental item, after a
\* failed financial section and a competitive result longer than its cut
C19_Witness ==
    /\ pos = NumSections
    /\ pc = "inflight"
    /\ items # <<>>
    /\ 1 \in failedAt
    /\ CharLength(results["competitive"]) > CompCut
    /\ CharLength(PromptPart(prompt, "Competitive Analysis Summary:\n", "Provide:")) = CompCut

ResultKeys ==
    {"financials", "technical", "competitive", "summary", "supplemental",
     "final_report", "overview", "sentiment"}

\* C20: whatever requests failed, the dictionary run_full_analysis returns
\* has exactly the eight keys financials, technical, competitive, summary,
\* supplemental, final_report, overview and sentiment, each with a string
\* for its value; overview is the competitive result up to its first
\* "## Competitive Moat" marker, and empty when the result has no marker.
C20_EightStringResults ==
    pc = "done" =>
        /\ DOMAIN results = ResultKeys
        /\ \A k \in ResultKeys :
               /\ DOMAIN results[k] = 1..Len(results[k])
               /\ \A i \in 1..Len(results[k]) : results[k][i] \in STRING
        /\ LET competitive == results["competitive"]
               overview == results["overview"]
           IN  IF \E i \in 1..Len(competitive) : competitive[i] = MoatMarker
               THEN /\ IsPrefix(overview, competitive)
                    /\ Len(overview) < Len(competitive)
                    /\ competitive[Len(overview) + 1] = MoatMarker
                    /\ \A i \in 1..Len(overview) : overview[i] # MoatMarker
               ELSE overview = <<>>

\* a finished run in which the financial and the summary request failed and
\* the competitive result holds the marker
C20_Witness ==
    /\ pc = "done"
    /\ {1, NumSections} \subseteq failedAt
    /\ 3 \notin failedAt
    /\ results["overview"] # <<>>
    /\ results["overview"] # results["competitive"]

\* requests of the run that repeat a rate-limited request: every position is
\* requested once, and every further request is a retry
RetriedRequests == nreq - Cardinality(requested)

\* C21: a finished run with n supplemental items and r retried requests has
\* slept exactly 3*60 + 45*n + 65*r seconds, whether or not requests failed;
\* with no item nothing is slept after the summary request, and an image
\* request is never retried.
C21_TotalSleep ==
    /\ (pc = "done" =>
            /\ requested = AllPositions
            /\ slept = 3 * call_delay + SuppSleepSecs * Len(items)
                          + RetrySleepSecs * RetriedRequests)
    /\ (pc \in {"supp", "assemble"} /\ items = <<>> =>
            slept = 3 * call_delay + RetrySleepSecs * RetriedRequests)
    /\ (pc = "retry_sleep" => ~IsImage)

\* a finished run with two items, a failed financial section and a retry
C21_Witness ==
    /\ pc = "done"
    /\ Len(items) = 2
    /\ 1 \in failedAt
    /\ RetriedRequests >= 1
    /\ slept = 335

Headings ==
    <<"## Executive Summary", "## Financial Analysis", "## Technical Analysis",
      "## Competitive Position & Moat", "## Supplemental Analysis">>

\* the text of the section of report r whose heading stands at index i: what
\* stands between the heading (and its blank line) and the next separator
SectionBody(r, i) == SubSeq(r, i + 2, Find(r, Separator, i) - 1)

\* C6: in the final report of a finished run the five headings occur once each
\* and in the order Executive Summary, Financial, Technical, Competitive,
\* Supplemental; the sections hold the summary, financials, technical and
\* competitive results as stored (placeholders included); the supplemental
\* section holds the joined supplemental outputs, and it is the sentence
\* 'No supplemental materials provided.' exactly when no output was produced.
C6_ReportSections ==
    pc = "done" =>
        LET r == results["final_report"]
            a1 == Find(r, Headings[1], 1)
            a2 == Find(r, Headings[2], 1)
            a3 == Find(r, Headings[3], 1)
            a4 == Find(r, Headings[4], 1)
            a5 == Find(r, Headings[5], 1)
            at == <<a1, a2, a3, a4, a5>>
        IN
        /\ \A k \in 1..5 : at[k] > 0 /\ Find(r, Headings[k], at[k] + 1) = 0
        /\ \A k \in 1..4 : at[k] < at[k + 1]
        /\ SectionBody(r, at[1]) = results["summary"]
        /\ SectionBody(r, at[2]) = results["financials"]
        /\ SectionBody(r, at[3]) = results["technical"]
        /\ SectionBody(r, at[4]) = results["competitive"]
        /\ (supplemental_outputs # <<>> =>
                SectionBody(r, at[5]) = Join(supplemental_outputs, <<"\n\n">>))
        /\ (SectionBody(r, at[5]) = <<NoSupplemental>> <=> supplemental_outputs = <<>>)

C6_Witness ==
    /\ pc = "done"
    /\ supplemental_outputs # <<>>
    /\ 2 \in failedAt
    /\ results["financials"] \in Texts

(***************************************************************************)
(* Characters and file names.  A file name is a sequence of one-character  *)
(* strings.                                                                *)
(***************************************************************************)
LowerChars ==
    <<"a", "b", "c", "d", "e", "f", "g", "h", "i", "j", "k", "l", "m",
      "n", "o", "p", "q", "r", "s", "t", "u", "v", "w", "x", "y", "z">>
UpperChars ==
    <<"A", "B", "C", "D", "E", "F", "G", "H", "I", "J", "K", "L", "M",
      "N", "O", "P", "Q", "R", "S", "T", "U", "V", "W", "X", "Y", "Z">>

\* str.lower() on one character
ToLowerChar(c) ==
    IF \E i \in 1..Len(UpperChars) : UpperChars[i] = c
    THEN LowerChars[CHOOSE i \in 1..Len(UpperChars) : UpperChars[i] = c]
    ELSE c

\* str.upper() on one character
ToUpperChar(c) ==
    IF \E i \in 1..Len(LowerChars) : LowerChars[i] = c
    THEN UpperChars[CHOOSE i \in 1..Len(LowerChars) : LowerChars[i] = c]
    ELSE c

\* str.lower()
Lower(s) == [i \in 1..Len(s) |-> ToLowerChar(s[i])]

\* str.upper()
Upper(s) == [i \in 1..Len(s) |-> ToUpperChar(s[i])]

\* str.rfind(c) + 1: index of the last occurrence of c in s, 0 when absent
LastIndex(s, c) ==
    IF \E i \in 1..Len(s) : s[i] = c
    THEN CHOOSE i \in 1..Len(s) : s[i] = c /\ \A j \in (i + 1)..Len(s) : s[j] # c
    ELSE 0

\* Path(filename).suffix: the last component's part from its last dot on, when
\* that dot is neither the first nor the last character of the component
Suffix(fn) ==
    LET name == From(fn, LastIndex(fn, "/") + 1)
        i == LastIndex(name, ".")
    IN  IF 1 < i /\ i < Len(name) THEN From(name, i) ELSE <<>>

\* str.lstrip(".")
RECURSIVE LStripDot(_)
LStripDot(s) ==
    IF s # <<>> /\ Head(s) = "." THEN LStripDot(Tail(s)) ELSE s

\* Ext without the lower-casing
ExtCaseSensitive(fn) == LStripDot(Suffix(fn))

\* ext = Path(filename).suffix.lower().lstrip(".")
Ext(fn) == LStripDot(Lower(Suffix(fn)))

(***************************************************************************)
(* FileProcessor.                                                          *)
(***************************************************************************)
pdf == <<"p", "d", "f">>
png == <<"p", "n", "g">>
jpg == <<"j", "p", "g">>
jpeg == <<"j", "p", "e", "g">>
gif == <<"g", "i", "f">>
webp == <<"w", "e", "b", "p">>
csv == <<"c", "s", "v">>
xlsx == <<"x", "l", "s", "x">>
xls == <<"x", "l", "s">>
txt == <<"t", "x", "t">>
md == <<"m", "d">>

\* FileProcessor.SUPPORTED_EXTENSIONS, as pairs <<extension, category>>
SUPPORTED_EXTENSIONS ==
    { <<pdf, "document">>,
      <<png, "image">>, <<jpg, "image">>, <<jpeg, "image">>, <<gif, "image">>,
      <<webp, "image">>,
      <<csv, "data">>, <<xlsx, "data">>, <<xls, "data">>,
      <<txt, "text">>, <<md, "text">> }

\* FileProcessor.IMAGE_MIME_TYPES, as pairs <<extension, <<"image/", subtype>>>>
IMAGE_MIME_TYPES ==
    { <<png, <<"image/", png>>>>, <<jpg, <<"image/", jpeg>>>>,
      <<jpeg, <<"image/", jpeg>>>>, <<gif, <<"image/", gif>>>>,
      <<webp, <<"image/", webp>>>> }

\* table.get(key, default) on a table of pairs
Lookup(table, key, default) ==
    IF \E e \in table : e[1] = key
    THEN (CHOOSE e \in table : e[1] = key)[2]
    ELSE default

\* get_file_type comparing the extension as written
GetFileTypeCaseSensitive(fn) == Lookup(SUPPORTED_EXTENSIONS, ExtCaseSensitive(fn), "None")

\* get_file_type(filename)
GetFileType(fn) == Lookup(SUPPORTED_EXTENSIONS, Ext(fn), "None")

\* file_bytes: what file_content is, or what file_content.read() returns;
\* a stream opened in text mode yields a str
FileBytes == IF contentForm = "text_stream" THEN "<str>" ELSE "<bytes>"
IsBytes == contentForm # "text_stream"

\* the parsing library raises on this input (io.BytesIO rejects a str)
ParserRaises == lib = "raises" \/ ~IsBytes

\* _extract_pdf_text(file_bytes)
ExtractPdfText ==
    IF lib = "missing" THEN "[PyPDF2 not installed. Cannot extract PDF text.]"
    ELSE IF ParserRaises THEN "[Error extracting PDF text: e]"
    ELSE IF lib = "empty"
         THEN "[PDF contained no extractable text. It may be image-based.]"
    ELSE "<pdf text>"

\* _extract_csv_text(file_bytes)
ExtractCsvText ==
    IF lib = "missing" THEN "[pandas not installed. Cannot process CSV.]"
    ELSE IF ParserRaises THEN "[Error processing CSV: e]"
    ELSE "<csv summary>"

\* _extract_excel_text(file_bytes)
ExtractExcelText ==
    IF lib = "missing" THEN "[pandas/openpyxl not installed. Cannot process Excel.]"
    ELSE IF ParserRaises THEN "[Error processing Excel: e]"
    ELSE "<excel summary>"

\* result = {"name": filename, "type": None, "content": None}
NewResult(fn) ==
    [k \in {"name", "type", "content"} |-> IF k = "name" THEN fn ELSE "None"]

\* file names process_file is called with
Stems == { <<"r">>, <<"r", ".", "t", "x", "t">> }
OtherExts == { <<"g", "z">>, <<"p", "d">>, <<"p", "d", "f", "x">> }
Capitalize(s) == [i \in 1..Len(s) |-> IF i = 1 THEN ToUpperChar(s[i]) ELSE s[i]]
ExtSpellings ==
    UNION { {e[1], Upper(e[1]), Capitalize(e[1])} : e \in SUPPORTED_EXTENSIONS }
    \cup UNION { {e, Upper(e)} : e \in OtherExts }
Filenames ==
    { st \o <<".">> \o e : st \in Stems, e \in ExtSpellings }
    \cup { <<"r">>, <<".", "p", "d", "f">>, <<"r", ".">>,
           <<"x", ".", "p", "d", "f", "/", "r">>,
           <<"d", ".", "d", "/", "r", ".", "P", "n", "g">> }

InitFile ==
    /\ PriceIdle
    /\ ReportIdle
    /\ AppIdle
    /\ LLMIdle
    /\ TickerIdle
    /\ FetchIdle
    /\ fpc = "called"
    /\ filename \in Filenames
    /\ contentForm \in {"bytes", "binary_stream", "text_stream"}
    /\ lib \in {"ok", "empty", "raises", "missing"}
    /\ result = <<>>
    /\ extractionFailed = FALSE

\* file_type is None: the error names the extension, nothing is extracted
ProcessUnsupported ==
    /\ fpc = "called"
    /\ GetFileType(filename) = "None"
    /\ result' = Put(NewResult(filename), "error",
                     <<"Unsupported file type: .">> \o Ext(filename))
    /\ fpc' = "returned"
    /\ UNCHANGED <<filename, contentForm, lib, extractionFailed>>
    /\ UNCHANGED nonFileVars

\* file_type == "document"
ProcessDocument ==
    /\ fpc = "called"
    /\ GetFileType(filename) = "document"
    /\ result' = Put(Put(NewResult(filename), "type", "text"),
                     "content", ExtractPdfText)
    /\ extractionFailed' = (lib = "missing" \/ ParserRaises)
    /\ fpc' = "returned"
    /\ UNCHANGED <<filename, contentForm, lib>>
    /\ UNCHANGED nonFileVars

\* file_type == "image"
ProcessImage ==
    /\ fpc = "called"
    /\ GetFileType(filename) = "image"
    /\ result' = Put(Put(Put(NewResult(filename), "type", "image"),
                         "content", FileBytes),
                     "media_type",
                     Lookup(IMAGE_MIME_TYPES, Ext(filename), <<"image/", png>>))
    /\ fpc' = "returned"
    /\ UNCHANGED <<filename, contentForm, lib, extractionFailed>>
    /\ UNCHANGED nonFileVars

\* file_type == "data"
ProcessData ==
    /\ fpc = "called"
    /\ GetFileType(filename) = "data"
    /\ result' = Put(Put(NewResult(filename), "type", "text"),
                     "content",
                     IF Ext(filename) = csv THEN ExtractCsvText ELSE ExtractExcelText)
    /\ extractionFailed' = (lib = "missing" \/ ParserRaises)
    /\ fpc' = "returned"
    /\ UNCHANGED <<filename, contentForm, lib>>
    /\ UNCHANGED nonFileVars

\* file_type == "text": bytes decode with errors="replace"; a str has no
\* decode, the AttributeError is caught by `except Exception` of process_file
ProcessText ==
    /\ fpc = "called"
    /\ GetFileType(filename) = "text"
    /\ IF IsBytes
       THEN /\ result' = Put(Put(NewResult(filename), "type", "text"),
                             "content", "<decoded text>")
            /\ UNCHANGED extractionFailed
       ELSE /\ result' = Put(Put(NewResult(filename), "type", "text"),
                             "error", <<"Error processing file: ", "e">>)
            /\ extractionFailed' = TRUE
    /\ fpc' = "returned"
    /\ UNCHANGED <<filename, contentForm, lib>>
    /\ UNCHANGED nonFileVars

NextFile ==
    \/ ProcessUnsupported
    \/ ProcessDocument
    \/ ProcessImage
    \/ ProcessData
    \/ ProcessText

SpecFile == InitFile /\ [][NextFile]_vars

(***************************************************************************)
(* Properties of FileProcessor.process_file (checked under SpecFile).      *)
(***************************************************************************)
ClaimedTextExts == {pdf, csv, xlsx, xls, txt, md}
ClaimedImageExts == {png, jpg, jpeg, gif, webp}

C8_ErrorWheneverFailed ==
    (fpc = "returned" /\ (extractionFailed \/ GetFileType(filename) = "None"))
        => "error" \in DOMAIN result

(***************************************************************************)
(* The ticker: main (app.py) normalises the text input and hands the       *)
(* ticker to run_analysis, which constructs the components with it.        *)
(***************************************************************************)
\* longest ticker text entered
MaxTickerLen == 3

TickerChars == {"a", "b", "A", "1", " ", "."}

TickerTexts == UNION { [1..n -> TickerChars] : n \in 0..MaxTickerLen }

\* str.strip() for the blank
RECURSIVE LStrip(_)
LStrip(s) == IF s # <<>> /\ Head(s) = " " THEN LStrip(Tail(s)) ELSE s

RECURSIVE RStrip(_)
RStrip(s) ==
    IF s # <<>> /\ s[Len(s)] = " " THEN RStrip(SubSeq(s, 1, Len(s) - 1)) ELSE s

Strip(s) == RStrip(LStrip(s))

\* AppTicker without the upper-casing
AppTickerNotUppercased(text) == Strip(text)

\* main: ticker = st.text_input(...).upper().strip()
AppTicker(text) == Strip(Upper(text))

\* DataFetcher.__init__: self.ticker = ticker.upper().strip()
DataFetcherTicker(t) == Strip(Upper(t))

\* ChartBuilder.__init__: self.ticker = ticker.upper()
ChartBuilderTicker(t) == Upper(t)

\* ReportGenerator.__init__: self.ticker = ticker.upper()
ReportGeneratorTicker(t) == Upper(t)

InitTicker ==
    /\ PriceIdle
    /\ ReportIdle
    /\ AppIdle
    /\ LLMIdle
    /\ FileIdle
    /\ FetchIdle
    /\ tpc = "input"
    /\ entered \in TickerTexts
    /\ appTicker = <<>>
    /\ dfTicker = <<>>
    /\ cbTicker = <<>>
    /\ llmTicker = <<>>
    /\ rgTicker = <<>>

\* main: the inputs are read; run_analysis is called when the button was
\* pressed and ticker and company name are non-empty, else the welcome page
MainInput ==
    /\ tpc = "input"
    /\ appTicker' = AppTicker(entered)
    /\ \E generate \in BOOLEAN :
          tpc' = IF generate /\ AppTicker(entered) # <<>> THEN "run" ELSE "welcome"
    /\ UNCHANGED <<entered, dfTicker, cbTicker, llmTicker, rgTicker>>
    /\ UNCHANGED nonTickerVars

\* run_analysis: DataFetcher(ticker), get_price_history; an empty history
\* ends run_analysis
NewDataFetcher ==
    /\ tpc = "run"
    /\ dfTicker' = DataFetcherTicker(appTicker)
    /\ \E empty \in BOOLEAN : tpc' = IF empty THEN "stopped" ELSE "chart"
    /\ UNCHANGED <<entered, appTicker, cbTicker, llmTicker, rgTicker>>
    /\ UNCHANGED nonTickerVars

\* run_analysis: ChartBuilder(price_history, ticker)
NewChartBuilder ==
    /\ tpc = "chart"
    /\ cbTicker' = ChartBuilderTicker(appTicker)
    /\ tpc' = "llm"
    /\ UNCHANGED <<entered, appTicker, dfTicker, llmTicker, rgTicker>>
    /\ UNCHANGED nonTickerVars

\* run_analysis: llm_client.run_full_analysis(ticker=ticker, ...)
CallRunFullAnalysis ==
    /\ tpc = "llm"
    /\ llmTicker' = appTicker
    /\ tpc' = "report"
    /\ UNCHANGED <<entered, appTicker, dfTicker, cbTicker, rgTicker>>
    /\ UNCHANGED nonTickerVars

\* run_analysis: ReportGenerator(ticker, company_name)
NewReportGenerator ==
    /\ tpc = "report"
    /\ rgTicker' = ReportGeneratorTicker(appTicker)
    /\ tpc' = "shown"
    /\ UNCHANGED <<entered, appTicker, dfTicker, cbTicker, llmTicker>>
    /\ UNCHANGED nonTickerVars

NextTicker ==
    \/ MainInput
    \/ NewDataFetcher
    \/ NewChartBuilder
    \/ CallRunFullAnalysis
    \/ NewReportGenerator

SpecTicker == InitTicker /\ [][NextTicker]_vars

HasLowerCase(s) == \E i \in 1..Len(s), j \in 1..Len(LowerChars) : s[i] = LowerChars[j]

\* C9: whatever text is entered, the ticker of main, of DataFetcher, of
\* ChartBuilder and of ReportGenerator and the ticker passed to
\* run_full_analysis contain no lower-case letter.
C9_TickerUppercase ==
    /\ ~HasLowerCase(appTicker)
    /\ ~HasLowerCase(dfTicker)
    /\ ~HasLowerCase(cbTicker)
    /\ ~HasLowerCase(llmTicker)
    /\ ~HasLowerCase(rgTicker)

C9_Witness ==
    /\ tpc = "shown"
    /\ entered = <<" ", "a", "b">>
    /\ llmTicker = <<"A", "B">>
    /\ dfTicker = llmTicker
    /\ cbTicker = llmTicker
    /\ rgTicker = llmTicker

(***************************************************************************)
(* DataFetcher: what the market-data API does is chosen per call.          *)
(*   stock.info:                "raise", "empty", "noprice" or "valid"     *)
(*   stock.history/yf.download: "raise", "empty" or "rows"                 *)
(*   stock.income_stmt, .balance_sheet, .cashflow:                         *)
(*                              "raise", "none", "empty" or "data"         *)
(***************************************************************************)
\* most calls of public methods on one DataFetcher
MaxFetchCalls == 3

HistoryOutcomes == {"raise", "empty", "rows"}
StatementOutcomes == {"raise", "none", "empty", "data"}

\* {}
EmptyDict == [k \in {} |-> "None"]

\* default of the threshold parameter of is_pre_revenue
DefaultThreshold == 1000000

\* values of info["totalRevenue"]: a number, the float NaN, a string that
\* float() parses, one that it rejects (ValueError), a list (TypeError), None
NoneValue == [kind |-> "none", value |-> 0]
Revenues ==
    { [kind |-> "num", value |-> v] :
         v \in {0 - 1, 0, DefaultThreshold - 1, DefaultThreshold, DefaultThreshold + 1} }
    \cup { [kind |-> "numstr", value |-> DefaultThreshold - 1],
           [kind |-> "nan", value |-> 0],
           [kind |-> "str", value |-> 0],
           [kind |-> "list", value |-> 0],
           NoneValue }

\* thresholds is_pre_revenue is called with
Thresholds == {DefaultThreshold, 0, DefaultThreshold + 1}

\* a usable stock.info
ValidInfo(rev) == [regularMarketPrice |-> "price", marketCap |-> "cap", totalRevenue |-> rev]

\* _fetch_info_backup(): built from stock.history(period="5d"); the bare
\* except swallows a failing history
FetchInfoBackup(hist5d) ==
    IF hist5d = "rows"
    THEN [regularMarketPrice |-> "close", symbol |-> "TICKER", shortName |-> "TICKER"]
    ELSE [error |-> "Could not fetch stock info"]

\* the body of `if self._info is None:` in get_stock_info
FetchInfo(apiInfo, hist5d, rev) ==
    CASE apiInfo = "raise" -> [error |-> "e"]
      [] apiInfo \in {"empty", "noprice"} -> FetchInfoBackup(hist5d)
      [] apiInfo = "valid" -> ValidInfo(rev)

\* the fetch of the stock info failed: stock.info raised, or it was unusable
\* and the backup found no prices
InfoFetchFailed(apiInfo, hist5d) ==
    \/ apiInfo = "raise"
    \/ apiInfo \in {"empty", "noprice"} /\ hist5d # "rows"

\* what one fetch of the stock info can meet, as <<stock.info, the 5-day
\* history of the backup, info["totalRevenue"]>>: the history matters only
\* to the backup and the revenue only in a usable stock.info
InfoFetches ==
    { <<"raise", "rows", NoneValue>> }
    \cup { <<a, h, NoneValue>> : a \in {"empty", "noprice"}, h \in HistoryOutcomes }
    \cup { <<"valid", "rows", rev>> : rev \in Revenues }

\* get_stock_info fetches only `if self._info is None`
PendingInfoFetches ==
    IF info = <<>> THEN InfoFetches ELSE { <<"valid", "rows", NoneValue>> }

\* self._info after get_stock_info()
InfoAfter(apiInfo, hist5d, rev) ==
    IF info = <<>> THEN <<FetchInfo(apiInfo, hist5d, rev)>> ELSE info

\* the body of `if self._history is None or self._history.empty:` in
\* get_price_history: stock.history, then yf.download when that was empty
FetchHistory(h, d) ==
    IF h = "raise" THEN "empty"
    ELSE IF h = "rows" THEN "rows"
    ELSE IF d = "rows" THEN "rows"
    ELSE "empty"

\* the history fetch raised (in stock.history, or in yf.download after it)
HistoryFetchFailed(h, d) == h = "raise" \/ (h = "empty" /\ d = "raise")

\* financials["key_metrics"]: info.get(...) for every metric (two of them shown)
KeyMetrics(i) ==
    [market_cap |-> Get(i, "marketCap", "None"),
     total_revenue |-> Get(i, "totalRevenue", NoneValue)]

\* one statement entry of get_financial_data: the try block reading the
\* statement o yields, `except Exception` stores the error in the entry
StatementEntry(o) ==
    CASE o = "raise" -> [error |-> "e"]
      [] o \in {"none", "empty"} -> EmptyDict
      [] o = "data" -> [latest |-> "values"]

\* BuildFinancials with one try block around the three statements: the
\* statements after a failing one are not read
BuildFinancialsOneTry(i, inc, bal, cf) ==
    [income_statement |-> StatementEntry(inc),
     balance_sheet |-> IF inc = "raise" THEN EmptyDict ELSE StatementEntry(bal),
     cash_flow |-> IF "raise" \in {inc, bal} THEN EmptyDict ELSE StatementEntry(cf),
     key_metrics |-> KeyMetrics(i)]

\* the dictionary get_financial_data builds; the outer `except Exception`
\* (financials["error"]) is never entered: get_stock_info catches its own
\* exceptions and always returns a dictionary
BuildFinancials(i, inc, bal, cf) ==
    [income_statement |-> StatementEntry(inc),
     balance_sheet |-> StatementEntry(bal),
     cash_flow |-> StatementEntry(cf),
     key_metrics |-> KeyMetrics(i)]

InitFetch ==
    /\ PriceIdle
    /\ ReportIdle
    /\ AppIdle
    /\ LLMIdle
    /\ FileIdle
    /\ TickerIdle
    /\ info = <<>>
    /\ history = "None"
    /\ financials = <<>>
    /\ fcalls = 0
    /\ lastOp = "new"
    /\ ret = "None"
    /\ failedFetch = FALSE
    /\ stmtReads = 0
    /\ stmtOutcomes = <<>>

\* get_stock_info()
GetStockInfo ==
    /\ fcalls < MaxFetchCalls
    /\ fcalls' = fcalls + 1
    /\ lastOp' = "info"
    /\ \E f \in PendingInfoFetches :
          /\ info' = InfoAfter(f[1], f[2], f[3])
          /\ ret' = InfoAfter(f[1], f[2], f[3])[1]
          /\ failedFetch' = (info = <<>> /\ InfoFetchFailed(f[1], f[2]))
    /\ UNCHANGED <<history, financials, stmtReads, stmtOutcomes>>
    /\ UNCHANGED nonFetchVars

\* the body of get_price_history(period, interval)
PriceHistoryCall ==
    /\ fcalls' = fcalls + 1
    /\ lastOp' = "history"
    /\ IF history \in {"None", "empty"}
       THEN \E h \in HistoryOutcomes, d \in HistoryOutcomes :
               /\ history' = FetchHistory(h, d)
               /\ ret' = FetchHistory(h, d)
               /\ failedFetch' = HistoryFetchFailed(h, d)
       ELSE /\ ret' = history
            /\ failedFetch' = FALSE
            /\ UNCHANGED history
    /\ UNCHANGED <<info, financials, stmtReads, stmtOutcomes>>

\* get_price_history(period, interval), called on its own
GetPriceHistory ==
    /\ fcalls < MaxFetchCalls
    /\ PriceHistoryCall
    /\ UNCHANGED nonFetchVars

\* the body of get_financial_data(): the cached dictionary, or the info and
\* the three statements are read and the dictionary is built and cached
FinancialDataCall ==
    IF financials # <<>>
    THEN /\ failedFetch' = FALSE
         /\ UNCHANGED <<info, financials, stmtReads, stmtOutcomes>>
    ELSE \E f \in PendingInfoFetches,
            inc \in StatementOutcomes, bal \in StatementOutcomes,
            cf \in StatementOutcomes :
            /\ info' = InfoAfter(f[1], f[2], f[3])
            /\ financials' =
                  <<BuildFinancials(InfoAfter(f[1], f[2], f[3])[1], inc, bal, cf)>>
            /\ stmtReads' = stmtReads + 1
            /\ stmtOutcomes' = <<inc, bal, cf>>
            /\ failedFetch' =
                  \/ info = <<>> /\ InfoFetchFailed(f[1], f[2])
                  \/ "raise" \in {inc, bal, cf}

\* get_financial_data()
GetFinancialData ==
    /\ fcalls < MaxFetchCalls
    /\ fcalls' = fcalls + 1
    /\ lastOp' = "financials"
    /\ FinancialDataCall
    /\ ret' = financials'[1]
    /\ UNCHANGED history
    /\ UNCHANGED nonFetchVars

\* PreRevenueAnswer taking a revenue equal to the threshold as below it
PreRevenueAnswerInclusive(fin, threshold) ==
    LET revenue == Get(Get(fin, "key_metrics", EmptyDict), "total_revenue", NoneValue)
    IN  IF revenue.kind = "none" THEN TRUE
        ELSE IF revenue.kind \in {"str", "list"} THEN TRUE
        ELSE IF revenue.kind = "nan" THEN FALSE
        ELSE revenue.value <= threshold

\* is_pre_revenue(threshold) on the dictionary fin of get_financial_data():
\* None gives True; float(revenue) raising ValueError or TypeError gives True;
\* float('nan') < threshold is False
PreRevenueAnswer(fin, threshold) ==
    LET revenue == Get(Get(fin, "key_metrics", EmptyDict), "total_revenue", NoneValue)
    IN  IF revenue.kind = "none" THEN TRUE
        ELSE IF revenue.kind \in {"str", "list"} THEN TRUE
        ELSE IF revenue.kind = "nan" THEN FALSE
        ELSE revenue.value < threshold

\* is_pre_revenue(threshold); ret records the threshold next to the answer
IsPreRevenue ==
    /\ fcalls < MaxFetchCalls
    /\ fcalls' = fcalls + 1
    /\ lastOp' = "pre_revenue"
    /\ FinancialDataCall
    /\ \E threshold \in Thresholds :
          ret' = [threshold |-> threshold,
                  answer |-> PreRevenueAnswer(financials'[1], threshold)]
    /\ UNCHANGED history
    /\ UNCHANGED nonFetchVars

NextFetch ==
    \/ GetStockInfo
    \/ GetPriceHistory
    \/ GetFinancialData
    \/ IsPreRevenue

SpecFetch == InitFetch /\ [][NextFetch]_vars

\* d has an 'error' entry, at the top or inside one of its statement entries
HasErrorEntry(d) ==
    \/ "error" \in DOMAIN d
    \/ \E k \in {"income_statement", "balance_sheet", "cash_flow"} :
          "error" \in DOMAIN d[k]

\* C10 as stated: every call returns, and after a failed fetch
\* get_price_history has returned the empty table, get_stock_info a dictionary
\* with an 'error' entry, and get_financial_data a dictionary in which the
\* failure is recorded as an 'error' entry.
C10_FetchFailuresReported ==
    /\ (lastOp = "history" /\ failedFetch => ret = "empty")
    /\ (lastOp = "info" /\ failedFetch => "error" \in DOMAIN ret)
    /\ (lastOp = "financials" /\ failedFetch => HasErrorEntry(ret))

\* the total revenue the DataFetcher has fetched: info["totalRevenue"], None
\* when the info has no such entry
FetchedRevenue == Get(info[1], "totalRevenue", NoneValue)

\* C13: is_pre_revenue(threshold) answers True exactly when the fetched total
\* revenue is missing (None), is not convertible by float() (a string that is
\* no number, a list), or is a number strictly below the threshold; a number
\* equal to or above the threshold gives False (so does the float NaN, which
\* float() accepts and which is below nothing).
C13_PreRevenueExactly ==
    lastOp = "pre_revenue" =>
        LET revenue == FetchedRevenue
            missing == revenue.kind = "none"
            notConvertible == revenue.kind \in {"str", "list"}
            below == revenue.kind \in {"num", "numstr"} /\ revenue.value < ret.threshold
            atOrAbove == revenue.kind \in {"num", "numstr"} /\ revenue.value >= ret.threshold
        IN  /\ ret.answer = (missing \/ notConvertible \/ below)
            /\ (atOrAbove => ret.answer = FALSE)

C13_Witness ==
    /\ lastOp = "pre_revenue"
    /\ ret.threshold = DefaultThreshold
    /\ FetchedRevenue = [kind |-> "num", value |-> DefaultThreshold]
    /\ ret.answer = FALSE
    /\ fcalls = 2
    /\ stmtReads = 1

StatementKeys == <<"income_statement", "balance_sheet", "cash_flow">>

\* C14: get_financial_data returns a dictionary with exactly the entries
\* income_statement, balance_sheet, cash_flow and key_metrics; the entry of a
\* statement has an 'error' exactly when the read of that statement raised,
\* whatever the reads of the other two did, and a statement that was read with
\* data holds it; the three statements are read at most once per DataFetcher,
\* the built dictionary never changes and is what every later call returns.
C14_FinancialDataShape ==
    /\ [](lastOp = "financials" =>
            /\ DOMAIN ret = {"income_statement", "balance_sheet", "cash_flow", "key_metrics"}
            /\ ret = financials[1]
            /\ \A k \in 1..3 :
                  /\ ("error" \in DOMAIN ret[StatementKeys[k]]) <=> (stmtOutcomes[k] = "raise")
                  /\ (stmtOutcomes[k] = "data" => "latest" \in DOMAIN ret[StatementKeys[k]]))
    /\ [](stmtReads <= 1 /\ (stmtReads = 1 <=> financials # <<>>))
    /\ [][financials # <<>> =>
            /\ financials' = financials
            /\ stmtReads' = stmtReads
            /\ stmtOutcomes' = stmtOutcomes]_vars

C14_Witness ==
    /\ lastOp = "financials"
    /\ stmtOutcomes = <<"data", "raise", "data">>
    /\ "latest" \in DOMAIN ret["cash_flow"]
    /\ fcalls = 3
    /\ failedFetch = FALSE

(***************************************************************************)
(* The price table and its moving averages:                                *)
(* DataFetcher.format_price_data_for_llm (src/lib/data_fetcher.py),        *)
(* ChartBuilder._prepare_data and get_chart_summary                        *)
(* (src/lib/chart_builder.py).                                             *)
(*                                                                         *)
(* Prices are integers (cents).  A mean is kept exact, as                  *)
(* <<"mean", sum, window>>; the float NaN is <<"NaN">>, None is <<"None">>.*)
(* The decimal rounding of round(x, 2) and of the format :.2f is not       *)
(* carried out: a rounded mean is <<"round2", sum, window>>.               *)
(***************************************************************************)
\* rolling(window=50), rolling(window=200)
MA50Window == 50
MA200Window == 200
\* default of the days parameter of format_price_data_for_llm
DefaultDays == 90

\* longest price history
MaxRows == 201

NaN == <<"NaN">>
None == <<"None">>

\* row counts of the price histories: around the two windows, and short ones
RowCounts ==
    { n \in 0..MaxRows :
         \/ n <= 2
         \/ (n >= MA50Window - 1 /\ n <= MA50Window + 1)
         \/ n >= MA200Window - 1 }

\* a Close column of n rows
Series(n, base, step) == [i \in 1..n |-> base + ((i * step) % 7)]

PriceSeries == { Series(n, base, step) : n \in RowCounts, base \in {100, 12345}, step \in {0, 3} }

\* col[a] + ... + col[b]
RECURSIVE SumOfRows(_, _, _)
SumOfRows(col, a, b) ==
    IF a > b THEN 0
    ELSE IF a = b THEN col[a]
    ELSE LET m == (a + b) \div 2
         IN  SumOfRows(col, a, m) + SumOfRows(col, m + 1, b)

\* the running sum pandas keeps for rolling(window=w) at row i: every row up
\* to i has been added on entering the window and every row up to i - w has
\* been removed on leaving it
RollingSum(col, w, i) == SumOfRows(col, 1, i) - SumOfRows(col, 1, i - w)

\* RollingMean already defined one row before the window is full
RollingMeanEarly(col, w) ==
    [i \in 1..Len(col) |->
        IF i < w - 1 THEN NaN ELSE <<"mean", RollingSum(col, w, i), w>>]

\* col.rolling(window=w).mean(): min_periods defaults to the window, so the
\* value is NaN while fewer than w rows are in the window
RollingMean(col, w) ==
    [i \in 1..Len(col) |->
        IF i < w THEN NaN ELSE <<"mean", RollingSum(col, w, i), w>>]

\* the columns MA50 and MA200 both classes add to the price table
WithMovingAverages(col) ==
    [MA50 |-> RollingMean(col, MA50Window), MA200 |-> RollingMean(col, MA200Window)]

\* pd.notna(x)
NotNa(x) == x # NaN /\ x # None

\* latest.get(name) for the last row of a table with these columns
LatestGet(columns, name, n) ==
    IF name \in DOMAIN columns THEN columns[name][n] ELSE None

\* the index labels of df.tail(d) for a table of n rows
TailRows(n, d) == { i \in 1..n : i > n - d }

\* round(x, 2)
Round2(x) == <<"round2", x[2], x[3]>>

InitPrice ==
    /\ LLMIdle
    /\ FileIdle
    /\ TickerIdle
    /\ FetchIdle
    /\ AppIdle
    /\ ReportIdle
    /\ closes \in PriceSeries
    /\ days \in {1, 10, DefaultDays}
    /\ dfColumns = <<>>
    /\ priceReport = <<>>
    /\ chartDf = <<>>
    /\ chartSummary = <<>>

\* the lines of format_price_data_for_llm about one moving average
AverageLines(label, ma) ==
    IF NotNa(ma)
    THEN << <<label, "-Day MA: $", ma>>, <<"Price vs ", label, "-MA: ", ma>> >>
    ELSE << <<label, "-Day MA: N/A (insufficient data)">> >>

\* format_price_data_for_llm(days): the moving averages are computed on the
\* full table, the report is about the last row of df_full.tail(days)
FormatPriceData ==
    /\ priceReport = <<>>
    /\ IF closes = <<>>
       THEN /\ priceReport' = << <<"Price data unavailable.">> >>
            /\ UNCHANGED dfColumns
       ELSE LET columns == WithMovingAverages(closes)
                recent == TailRows(Len(closes), days)
                latest == CHOOSE i \in recent : \A j \in recent : j <= i
            IN  /\ dfColumns' = <<columns>>
                /\ priceReport' =
                      << <<"=== MOVING AVERAGES ===">> >>
                      \o AverageLines("50", LatestGet(columns, "MA50", latest))
                      \o AverageLines("200", LatestGet(columns, "MA200", latest))
    /\ UNCHANGED <<closes, days, chartDf, chartSummary>>
    /\ UNCHANGED nonPriceVars

\* ChartBuilder(df, ticker): self.df = df.copy(); _prepare_data() adds the
\* columns unless the table is empty
PrepareData ==
    /\ chartDf = <<>>
    /\ chartDf' = IF closes = <<>> THEN <<EmptyDict>> ELSE <<WithMovingAverages(closes)>>
    /\ UNCHANGED <<closes, days, dfColumns, priceReport, chartSummary>>
    /\ UNCHANGED nonPriceVars

\* get_chart_summary(): the entries ma50 and ma200
GetChartSummary ==
    /\ chartDf # <<>>
    /\ chartSummary = <<>>
    /\ IF closes = <<>>
       THEN chartSummary' = <<[error |-> <<"No data available">>]>>
       ELSE LET ma50 == LatestGet(chartDf[1], "MA50", Len(closes))
                ma200 == LatestGet(chartDf[1], "MA200", Len(closes))
            IN  chartSummary' =
                   <<[ma50 |-> IF NotNa(ma50) THEN Round2(ma50) ELSE None,
                      ma200 |-> IF NotNa(ma200) THEN Round2(ma200) ELSE None]>>
    /\ UNCHANGED <<closes, days, dfColumns, priceReport, chartDf>>
    /\ UNCHANGED nonPriceVars

NextPrice ==
    \/ FormatPriceData
    \/ PrepareData
    \/ GetChartSummary

SpecPrice == InitPrice /\ [][NextPrice]_vars

\* the w-row average of a column as the claim describes it
AverageColumn(col, w) ==
    [i \in 1..Len(col) |->
        IF i >= w THEN <<"mean", SumOfRows(col, i - w + 1, i), w>> ELSE NaN]

\* line is one of the lines of the price report
Reports(line) == \E k \in 1..Len(priceReport) : priceReport[k] = line

\* C12: in the table of format_price_data_for_llm and in the table of the
\* ChartBuilder, MA50 (MA200) of a row is the sum of the closing prices of that
\* row and the 49 (199) rows before it divided by 50 (200), and NaN for every
\* row with fewer than 50 (200) rows up to itself; for a table whose last row
\* has no 50-row (200-row) average the price report has the line
\* 'N/A (insufficient data)' for it and the chart summary has None, and else
\* both give the average of the last row.
C12_MovingAverages ==
    LET n == Len(closes)
        ma50 == AverageColumn(closes, MA50Window)
        ma200 == AverageColumn(closes, MA200Window)
    IN  /\ (dfColumns # <<>> =>
              dfColumns[1]["MA50"] = ma50 /\ dfColumns[1]["MA200"] = ma200)
        /\ (chartDf # <<>> /\ n > 0 =>
              chartDf[1]["MA50"] = ma50 /\ chartDf[1]["MA200"] = ma200)
        /\ (priceReport # <<>> /\ n > 0 =>
              /\ (n < MA50Window <=> Reports(<<"50", "-Day MA: N/A (insufficient data)">>))
              /\ (n >= MA50Window <=> Reports(<<"50", "-Day MA: $", ma50[n]>>))
              /\ (n < MA200Window <=> Reports(<<"200", "-Day MA: N/A (insufficient data)">>))
              /\ (n >= MA200Window <=> Reports(<<"200", "-Day MA: $", ma200[n]>>)))
        /\ (chartSummary # <<>> /\ n > 0 =>
              /\ chartSummary[1]["ma50"] =
                    (IF n < MA50Window THEN None ELSE Round2(ma50[n]))
              /\ chartSummary[1]["ma200"] =
                    (IF n < MA200Window THEN None ELSE Round2(ma200[n])))

C12_Witness ==
    /\ Len(closes) = MA200Window - 1
    /\ closes[1] # closes[2]
    /\ chartSummary # <<>>
    /\ chartSummary[1]["ma200"] = None
    /\ chartSummary[1]["ma50"] # None
    /\ Reports(<<"200", "-Day MA: N/A (insufficient data)">>)
    /\ dfColumns # <<>>
    /\ dfColumns[1]["MA50"][MA50Window] # NaN
    /\ dfColumns[1]["MA50"][MA50Window - 1] = NaN

(***************************************************************************)
(* ReportGenerator (src/lib/report_generator.py).                          *)
(*                                                                         *)
(* A text is a sequence of tokens: the characters "#", "-", "*", "|", ":", *)
(* " " and "\n" one token each, and any other piece of text (a word, an    *)
(* HTML tag) one token that contains none of these characters at either    *)
(* end.  str.split, str.join, str.strip and the regular expressions work   *)
(* on these tokens as they work on the characters.                         *)
(***************************************************************************)
\* most lines of a report text
MaxReportLines == 3

NL == "\n"

ChartPlaceholder == "[Note: Chart will be inserted separately]"
TAMarker == "Technical Analysis"

\* the tokens the conversion produces that begin with "<"
TagTokens ==
    { "<h1>", "</h1>", "<h2>", "</h2>", "<h3>", "</h3>",
      "<strong>", "</strong>", "<em>", "</em>",
      "<ul>", "</ul>", "<li>", "</li>",
      "<table class=\"data-table\">", "<thead><tr>", "</tr></thead><tbody>",
      "<tr>", "</tr>", "<th>", "</th>", "<td>", "</td>", "</tbody></table>",
      "<hr>", "<p>", "</p>",
      "<div class=\"chart-container\">", "</div>" }

\* str.split(sep) for a one-token separator
RECURSIVE SplitOn(_, _)
SplitOn(s, sep) ==
    LET i == Find(s, sep, 1)
    IN  IF i = 0 THEN <<s>>
        ELSE <<SubSeq(s, 1, i - 1)>> \o SplitOn(From(s, i + 1), sep)

\* str.strip(): blanks and line breaks at both ends are removed
RECURSIVE StripWs(_)
StripWs(s) ==
    IF s # <<>> /\ Head(s) \in {" ", NL} THEN StripWs(Tail(s))
    ELSE IF s # <<>> /\ s[Len(s)] \in {" ", NL} THEN StripWs(SubSeq(s, 1, Len(s) - 1))
    ELSE s

\* re.sub(r"^#{n} (.+)$", r"<hn>\1</hn>", ..., flags=re.MULTILINE) on one line
Header(line, n) ==
    IF /\ Len(line) > n + 1
       /\ \A k \in 1..n : line[k] = "#"
       /\ line[n + 1] = " "
    THEN <<CASE n = 1 -> "<h1>" [] n = 2 -> "<h2>" [] n = 3 -> "<h3>">>
         \o SubSeq(line, n + 2, Len(line))
         \o <<CASE n = 1 -> "</h1>" [] n = 2 -> "</h2>" [] n = 3 -> "</h3>">>
    ELSE line

\* the three header substitutions, ### first
Headers(line) == Header(Header(Header(line, 3), 2), 1)

\* index of the first "**" in line at or after index i, 0 when absent
RECURSIVE FindStars(_, _)
FindStars(line, i) ==
    IF i + 1 > Len(line) THEN 0
    ELSE IF line[i] = "*" /\ line[i + 1] = "*" THEN i
    ELSE FindStars(line, i + 1)

\* re.sub(r"\*\*(.+?)\*\*", r"<strong>\1</strong>", ...) on one line: the
\* leftmost "**", the shortest non-empty content, the next "**"
RECURSIVE Strong(_)
Strong(line) ==
    IF line = <<>> THEN <<>>
    ELSE LET k == IF Len(line) >= 2 /\ line[1] = "*" /\ line[2] = "*"
                  THEN FindStars(line, 4) ELSE 0
         IN  IF k > 0
             THEN <<"<strong>">> \o SubSeq(line, 3, k - 1) \o <<"</strong>">>
                  \o Strong(From(line, k + 2))
             ELSE <<Head(line)>> \o Strong(Tail(line))

\* re.sub(r"\*(.+?)\*", r"<em>\1</em>", ...) on one line
RECURSIVE Em(_)
Em(line) ==
    IF line = <<>> THEN <<>>
    ELSE LET k == IF line[1] = "*" THEN Find(line, "*", 3) ELSE 0
         IN  IF k > 0
             THEN <<"<em>">> \o SubSeq(line, 2, k - 1) \o <<"</em>">>
                  \o Em(From(line, k + 1))
             ELSE <<Head(line)>> \o Em(Tail(line))

\* markdown_to_html: headers, bold and italic, line by line (no pattern
\* matches across a line break)
RECURSIVE Inline(_)
Inline(lines) ==
    IF lines = <<>> THEN <<>>
    ELSE <<Em(Strong(Headers(Head(lines))))>> \o Inline(Tail(lines))

\* stripped.startswith("- ")
IsBullet(stripped) == Len(stripped) >= 2 /\ stripped[1] = "-" /\ stripped[2] = " "

\* BulletLists leaving a list open after the last line
RECURSIVE BulletListsUnclosed(_, _)
BulletListsUnclosed(lines, in_list) ==
    IF lines = <<>> THEN <<>>
    ELSE LET line == Head(lines)
             stripped == Strip(line)
         IN  IF IsBullet(stripped)
             THEN (IF ~in_list THEN << <<"<ul>">> >> ELSE <<>>)
                  \o << <<"<li>">> \o SubSeq(stripped, 3, Len(stripped)) \o <<"</li>">> >>
                  \o BulletListsUnclosed(Tail(lines), TRUE)
             ELSE (IF in_list THEN << <<"</ul>">> >> ELSE <<>>)
                  \o << line >>
                  \o BulletListsUnclosed(Tail(lines), FALSE)

\* markdown_to_html: the loop over the lines that builds new_lines, and the
\* closing of a list still open after the last line
RECURSIVE BulletLists(_, _)
BulletLists(lines, in_list) ==
    IF lines = <<>> THEN (IF in_list THEN << <<"</ul>">> >> ELSE <<>>)
    ELSE LET line == Head(lines)
             stripped == Strip(line)
         IN  IF IsBullet(stripped)
             THEN (IF ~in_list THEN << <<"<ul>">> >> ELSE <<>>)
                  \o << <<"<li>">> \o SubSeq(stripped, 3, Len(stripped)) \o <<"</li>">> >>
                  \o BulletLists(Tail(lines), TRUE)
             ELSE (IF in_list THEN << <<"</ul>">> >> ELSE <<>>)
                  \o << line >>
                  \o BulletLists(Tail(lines), FALSE)


\* _convert_tables: '"|" in line and line.strip().startswith("|")'
IsTableRow(line) ==
    /\ \E k \in 1..Len(line) : line[k] = "|"
    /\ StripWs(line) # <<>>
    /\ Head(StripWs(line)) = "|"

\* _process_table: re.match(r"^\|[-:\s|]+\|$", line.strip())
IsSeparator(stripped) ==
    /\ Len(stripped) >= 3
    /\ stripped[1] = "|"
    /\ stripped[Len(stripped)] = "|"
    /\ \A k \in 2..(Len(stripped) - 1) : stripped[k] \in {"-", ":", " ", NL, "|"}

\* _process_table: [c.strip() for c in line.split("|")[1:-1]]
RECURSIVE StripEach(_)
StripEach(parts) ==
    IF parts = <<>> THEN <<>> ELSE <<StripWs(Head(parts))>> \o StripEach(Tail(parts))

Cells(line) ==
    LET parts == SplitOn(line, "|")
    IN  StripEach(SubSeq(parts, 2, Len(parts) - 1))

\* _process_table: one html line per cell
RECURSIVE CellLines(_, _, _)
CellLines(cells, open, close) ==
    IF cells = <<>> THEN <<>>
    ELSE << <<open>> \o Head(cells) \o <<close>> >> \o CellLines(Tail(cells), open, close)

\* _process_table: the html lines of the table lines from the one numbered i on
RECURSIVE TableRows(_, _)
TableRows(lines, i) ==
    IF lines = <<>> THEN <<>>
    ELSE LET line == Head(lines)
             cells == Cells(line)
         IN  (IF IsSeparator(StripWs(line)) THEN <<>>
              ELSE IF i = 0
                   THEN << <<"<thead><tr>">> >> \o CellLines(cells, "<th>", "</th>")
                        \o << <<"</tr></thead><tbody>">> >>
                   ELSE << <<"<tr>">> >> \o CellLines(cells, "<td>", "</td>")
                        \o << <<"</tr>">> >>)
             \o TableRows(Tail(lines), i + 1)

\* _process_table
ProcessTable(lines) ==
    Join(<< <<"<table class=\"data-table\">">> >> \o TableRows(lines, 0)
         \o << <<"</tbody></table>">> >>, <<NL>>)

\* ConvertTableLines dropping a table that ends the text
RECURSIVE ConvertTableLinesDroppingLast(_, _)
ConvertTableLinesDroppingLast(lines, table_lines) ==
    IF lines = <<>> THEN <<>>
    ELSE IF IsTableRow(Head(lines))
         THEN ConvertTableLinesDroppingLast(Tail(lines), Append(table_lines, Head(lines)))
         ELSE (IF table_lines # <<>> THEN <<ProcessTable(table_lines)>> ELSE <<>>)
              \o <<Head(lines)>>
              \o ConvertTableLinesDroppingLast(Tail(lines), <<>>)

\* _convert_tables: the loop over the lines, table_lines the rows collected
\* so far (in_table holds exactly when table_lines is not empty)
RECURSIVE ConvertTableLines(_, _)
ConvertTableLines(lines, table_lines) ==
    IF lines = <<>>
    THEN (IF table_lines # <<>> THEN <<ProcessTable(table_lines)>> ELSE <<>>)
    ELSE IF IsTableRow(Head(lines))
         THEN ConvertTableLines(Tail(lines), Append(table_lines, Head(lines)))
         ELSE (IF table_lines # <<>> THEN <<ProcessTable(table_lines)>> ELSE <<>>)
              \o <<Head(lines)>>
              \o ConvertTableLines(Tail(lines), <<>>)

\* _convert_tables
ConvertTables(text) == Join(ConvertTableLines(SplitOn(text, NL), <<>>), <<NL>>)

\* re.sub(r"^---+$", "<hr>", ..., flags=re.MULTILINE) on one line
Hr(line) ==
    IF Len(line) >= 3 /\ \A k \in 1..Len(line) : line[k] = "-" THEN <<"<hr>">> ELSE line

RECURSIVE HrLines(_)
HrLines(lines) == IF lines = <<>> THEN <<>> ELSE <<Hr(Head(lines))>> \o HrLines(Tail(lines))

\* index of the first "\n\n" in s at or after index i, 0 when absent
RECURSIVE FindBlankLine(_, _)
FindBlankLine(s, i) ==
    IF i + 1 > Len(s) THEN 0
    ELSE IF s[i] = NL /\ s[i + 1] = NL THEN i
    ELSE FindBlankLine(s, i + 1)

\* html.split("\n\n")
RECURSIVE SplitParagraphs(_)
SplitParagraphs(s) ==
    LET k == FindBlankLine(s, 1)
    IN  IF k = 0 THEN <<s>>
        ELSE <<SubSeq(s, 1, k - 1)>> \o SplitParagraphs(From(s, k + 2))

\* markdown_to_html: a stripped paragraph that is not empty and does not
\* start with "<" is wrapped in <p>; every paragraph is kept
RECURSIVE Paragraphs(_)
Paragraphs(paragraphs) ==
    IF paragraphs = <<>> THEN <<>>
    ELSE LET p == StripWs(Head(paragraphs))
         IN  << IF p # <<>> /\ Head(p) \notin TagTokens
                THEN <<"<p>">> \o p \o <<"</p>">>
                ELSE p >>
             \o Paragraphs(Tail(paragraphs))

\* markdown_to_html
MarkdownToHtml(markdown) ==
    LET inline == Inline(SplitOn(markdown, NL))
        listed == Join(BulletLists(inline, FALSE), <<NL>>)
        tabled == ConvertTables(listed)
        ruled  == Join(HrLines(SplitOn(tabled, NL)), <<NL>>)
    IN  Join(Paragraphs(SplitParagraphs(ruled)), <<NL, NL>>)

\* f'<div class="chart-container">{chart_html}</div>'
ChartDiv(chart_html) == <<"<div class=\"chart-container\">", chart_html, "</div>">>

\* str.replace(old, new) for a one-token old
RECURSIVE Replace(_, _, _)
Replace(s, old, new) ==
    IF s = <<>> THEN <<>>
    ELSE (IF Head(s) = old THEN new ELSE <<Head(s)>>) \o Replace(Tail(s), old, new)

\* generate_html_report: content_html after the chart, if any, is inserted;
\* chart_html is <<>> for None and <<h>> for the chart's HTML h
ContentWithChart(content_html, chart_html) ==
    IF chart_html = <<>> THEN content_html
    ELSE IF Find(content_html, ChartPlaceholder, 1) > 0
         THEN Replace(content_html, ChartPlaceholder, ChartDiv(chart_html[1]))
         ELSE LET ta == Find(content_html, TAMarker, 1)
                  insert_pos == IF ta > 0 THEN Find(content_html, "</h2>", ta) ELSE 0
              IN  IF insert_pos > 0
                  THEN SubSeq(content_html, 1, insert_pos)
                       \o <<NL>> \o ChartDiv(chart_html[1]) \o <<NL>>
                       \o From(content_html, insert_pos + 1)
                  ELSE content_html

\* generate_html_report: the document around content_html
HtmlHead == <<"<!DOCTYPE html>", "<title>", "Company", " (", "TICK", ")", "</title>",
              "<style>", "<main class=\"report-content\">">>
HtmlFoot == <<"</main>", "<footer class=\"report-footer\">", "</html>">>

\* generate_html_report
GenerateHtmlReport(content, chart_html) ==
    HtmlHead \o ContentWithChart(MarkdownToHtml(content), chart_html) \o HtmlFoot

\* the lines report texts are made of
ReportLines ==
    { <<>>,
      <<"x">>,
      <<"#", "#", " ", TAMarker>>,
      <<"-", " ", "x">>,
      <<" ", "|", "x", "|">>,
      <<"|", "-", "|">>,
      <<"-", "-", "-">>,
      <<ChartPlaceholder>>,
      <<"*", "*", "x", "*", "*">>,
      <<"*", "x", "*">>,
      <<"<ul>">> }

\* texts of 1..MaxReportLines lines
ReportTexts ==
    { Join(ls, <<NL>>) : ls \in UNION { [1..n -> ReportLines] : n \in 1..MaxReportLines } }

InitReport ==
    /\ LLMIdle /\ FileIdle /\ TickerIdle /\ FetchIdle /\ AppIdle /\ PriceIdle
    /\ rpc = "called"
    /\ report_content \in ReportTexts
    /\ chart_figure \in {<<>>, <<"figure">>}
    /\ toHtml \in {"ok", "raises"}
    /\ report_components = <<>>
    /\ table_text = <<>>

\* generate_report_for_streamlit: chart_html although to_html raised
ChartHtmlUnguarded(figure, outcome) ==
    IF figure # <<>> THEN <<"plotly chart">> ELSE <<>>

\* generate_report_for_streamlit: chart_html, None unless a figure is given
\* and its to_html returns
ChartHtml(figure, outcome) ==
    IF figure # <<>> /\ outcome = "ok" THEN <<"plotly chart">> ELSE <<>>

\* generate_report_for_streamlit
GenerateReportForStreamlit ==
    /\ rpc = "called"
    /\ report_components' =
           << [ html     |-> GenerateHtmlReport(report_content, ChartHtml(chart_figure, toHtml)),
                chart    |-> chart_figure,
                markdown |-> report_content ] >>
    /\ rpc' = "returned"
    /\ UNCHANGED <<report_content, chart_figure, toHtml, table_text>>
    /\ UNCHANGED nonReportVars

\* _convert_tables(report_content)
ConvertTablesCall ==
    /\ rpc = "called"
    /\ table_text' = <<ConvertTables(report_content)>>
    /\ rpc' = "converted"
    /\ UNCHANGED <<report_content, chart_figure, toHtml, report_components>>
    /\ UNCHANGED nonReportVars

NextReport ==
    \/ GenerateReportForStreamlit
    \/ ConvertTablesCall

SpecReport == InitReport /\ [][NextReport]_vars

\* C15: generate_report_for_streamlit always returns a dictionary with
\* exactly the entries html, chart and markdown; markdown is the report
\* content passed in, chart is the figure passed in, html is a complete
\* document around the converted content; and when the figure's to_html
\* raises (or no figure is given) the document holds no chart container.
C15_StreamlitComponents ==
    rpc = "returned" =>
        /\ Len(report_components) = 1
        /\ DOMAIN report_components[1] = {"html", "chart", "markdown"}
        /\ report_components[1].markdown = report_content
        /\ report_components[1].chart = chart_figure
        /\ LET html == report_components[1].html
           IN  /\ SubSeq(html, 1, Len(HtmlHead)) = HtmlHead
               /\ SubSeq(html, Len(html) - Len(HtmlFoot) + 1, Len(html)) = HtmlFoot
               /\ (chart_figure = <<>> \/ toHtml = "raises") =>
                     /\ \A k \in 1..Len(html) :
                            html[k] \notin {"<div class=\"chart-container\">", "plotly chart"}
                     /\ html = HtmlHead \o MarkdownToHtml(report_content) \o HtmlFoot

\* a figure whose to_html raised, for a report with a Technical Analysis
\* heading after which the chart would have been inserted
C15_Witness ==
    /\ rpc = "returned"
    /\ chart_figure # <<>>
    /\ toHtml = "raises"
    /\ Find(report_content, TAMarker, 1) > 0
    /\ Find(report_components[1].html, "</h2>", 1) > 0

IsListTag(t) == t \in {"<ul>", "</ul>", "<li>"}

\* the list tags of text s, in order
ListTags(s) == SelectSeq(s, IsListTag)

\* occurrences of token t among the first i tokens of s
Count(s, t, i) == Cardinality({k \in 1..i : s[k] = t})

\* lists open after the first i tags
OpenLists(tags, i) == Count(tags, "<ul>", i) - Count(tags, "</ul>", i)

\* every <ul> is closed before the next one and before the end, no </ul>
\* stands without its <ul>, and every <li> stands inside a list
ListsBalanced(tags) ==
    /\ \A i \in 1..Len(tags) : OpenLists(tags, i) \in {0, 1}
    /\ \A i \in 1..Len(tags) : tags[i] = "<li>" => OpenLists(tags, i) = 1
    /\ OpenLists(tags, Len(tags)) = 0

\* the lines of text that are list items
BulletLines(text) ==
    LET lines == SplitOn(text, NL)
    IN  {i \in 1..Len(lines) : IsBullet(Strip(lines[i]))}

\* C22 as stated: in the converted text of any report the list tags are
\* balanced and never nested.
C22_ListTagsBalanced ==
    rpc = "returned" => ListsBalanced(ListTags(report_components[1].html))

\* C22 amended: in the converted text of a report that itself holds no list
\* tag, the list tags are balanced and never nested, a list open at the last
\* line is closed, and there is one <li>, inside a list, for every line that
\* starts with "- ".
C22_ListTagsBalancedUnlessGiven ==
    (rpc = "returned" /\ ListTags(report_content) = <<>>) =>
        LET tags == ListTags(report_components[1].html)
        IN  /\ ListsBalanced(tags)
            /\ Count(tags, "<li>", Len(tags)) = Cardinality(BulletLines(report_content))

\* a report of two lists, the second ending the text
C22_Witness ==
    /\ rpc = "returned"
    /\ ListTags(report_content) = <<>>
    /\ Cardinality(BulletLines(report_content)) = 2
    /\ ListTags(report_components[1].html)
           = <<"<ul>", "<li>", "</ul>", "<ul>", "<li>", "</ul>">>


\* the line begins, after leading blanks, with "|"
BeginsWithBar(line) ==
    \E k \in 1..Len(line) : line[k] = "|" /\ \A j \in 1..(k - 1) : line[j] = " "

TableOpen == <<"<table class=\"data-table\">">>
TableClose == <<"</tbody></table>">>

\* the lines of a text with every maximal run of lines that begin with "|"
\* replaced by the one line TableOpen
RECURSIVE RunsCollapsed(_, _)
RunsCollapsed(lines, in_run) ==
    IF lines = <<>> THEN <<>>
    ELSE IF BeginsWithBar(Head(lines))
         THEN (IF in_run THEN <<>> ELSE <<TableOpen>>) \o RunsCollapsed(Tail(lines), TRUE)
         ELSE <<Head(lines)>> \o RunsCollapsed(Tail(lines), FALSE)

\* the lines of a converted text with every table, from its opening line to
\* its closing line, replaced by the one line TableOpen
RECURSIVE TablesCollapsed(_, _)
TablesCollapsed(lines, in_table) ==
    IF lines = <<>> THEN <<>>
    ELSE IF in_table
         THEN TablesCollapsed(Tail(lines), Head(lines) # TableClose)
         ELSE <<Head(lines)>> \o TablesCollapsed(Tail(lines), Head(lines) = TableOpen)

\* C23: the text _convert_tables returns is the text given with every
\* maximal run of lines beginning (after blanks) with "|" replaced by one
\* table, a run at the end of the text included, and with every other line
\* unchanged and in its place; every table opened is closed, and there are
\* as many tables as runs.
C23_TablesReplaceRuns ==
    rpc = "converted" =>
        LET given == SplitOn(report_content, NL)
            out   == SplitOn(table_text[1], NL)
        IN  /\ TablesCollapsed(out, FALSE) = RunsCollapsed(given, FALSE)
            /\ Cardinality({i \in 1..Len(out) : out[i] = TableOpen})
                  = Cardinality({i \in 1..Len(out) : out[i] = TableClose})
            /\ Cardinality({i \in 1..Len(out) : out[i] = TableOpen})
                  = Cardinality({i \in 1..Len(given) :
                        /\ BeginsWithBar(given[i])
                        /\ (i = 1 \/ ~BeginsWithBar(given[i - 1]))})
            /\ \A i \in 1..Len(out) : out[i] = TableOpen =>
                   \E j \in (i + 1)..Len(out) :
                       out[j] = TableClose /\ \A k \in (i + 1)..(j - 1) : out[k] # TableOpen

\* two runs with a line between them, the second an indented row that ends
\* the text
C23_Witness ==
    /\ rpc = "converted"
    /\ LET given == SplitOn(report_content, NL)
       IN  /\ Len(given) = 3
           /\ BeginsWithBar(given[1])
           /\ ~BeginsWithBar(given[2])
           /\ given[3] = <<" ", "|", "x", "|">>
    /\ Cardinality({i \in 1..Len(SplitOn(table_text[1], NL)) :
                        SplitOn(table_text[1], NL)[i] = TableOpen}) = 2

(***************************************************************************)
(* The application: main, run_analysis and display_report (src/app.py).    *)
(*                                                                         *)
(* apc: "main"         at the start of a script run                        *)
(*      "no_key"       main returned after check_api_key() failed          *)
(*      "welcome"      main showed the welcome page                        *)
(*      "init"         run_analysis entered                                *)
(*      "fetch"        before data_fetcher.get_price_history               *)
(*      "financial"    before format_financial_data_for_llm                *)
(*      "chart"        before ChartBuilder(...)                            *)
(*      "files"        in process_multiple_files, between two files        *)
(*      "process_file" inside process_file                                 *)
(*      "llm"          before llm_client.run_full_analysis                 *)
(*      "report"       before ReportGenerator(...)                         *)
(*      "display"      before display_report                               *)
(*      "tabs"         display_report, after st.success                    *)
(*      "done"         run_analysis returned after display_report          *)
(*      "stopped"      run_analysis returned after an empty price history  *)
(*      "failed"       run_analysis returned from its except clause        *)
(*                                                                         *)
(* What the page shows is a sequence of entries <<kind>> or                *)
(* <<"warning", filename>>.                                                *)
(***************************************************************************)
\* most files uploaded in one script run
MaxUploads == 2

\* texts typed into the two text inputs
AppTexts == { <<>>, <<" ">>, <<"a">>, <<" ", "a">> }

\* names of uploaded files
UploadNames ==
    { <<"r", ".">> \o e : e \in {pdf, png, csv, txt, <<"g", "z">>} }

UploadLists == UNION { [1..n -> UploadNames] : n \in 0..MaxUploads }

InitApp ==
    /\ PriceIdle
    /\ ReportIdle
    /\ LLMIdle
    /\ FileIdle
    /\ TickerIdle
    /\ FetchIdle
    /\ apc = "main"
    /\ apiKey \in {"absent", "empty", "set"}
    /\ pressed \in BOOLEAN
    /\ tickerText \in AppTexts
    /\ companyText \in AppTexts
    /\ uploaded_files \in UploadLists
    /\ processed_files = <<>>
    /\ supplemental_contents = <<>>
    /\ shown = <<>>
    /\ llmCalls = 0
    /\ llmArg = <<>>
    /\ chartsBuilt = 0

\* check_api_key(): st.secrets.get("ANTHROPIC_API_KEY", "") is non-empty
CheckApiKey == apiKey = "set"

\* main: company_name = st.text_input(...).strip()
CompanyName(text) == Strip(text)

\* RunCondition without the test of the company name
RunConditionIgnoringCompany(generate_button, ticker, company_name) ==
    generate_button /\ ticker # <<>>

\* main: `if generate_button and ticker and company_name:`
RunCondition(generate_button, ticker, company_name) ==
    generate_button /\ ticker # <<>> /\ company_name # <<>>

\* an except clause that ends the run without a message
CaughtSilently ==
    /\ apc' = "failed"
    /\ UNCHANGED shown

\* the except clause of run_analysis: st.error(f"... {str(e)}"),
\* st.exception(e); the exception e is named by the step that raised it
Caught ==
    /\ shown' = Append(shown, <<"error", apc>>)
    /\ apc' = "failed"

\* main(), up to the call of run_analysis or to its return
Main ==
    /\ apc = "main"
    /\ IF ~CheckApiKey
       THEN /\ shown' = shown \o << <<"api_key_error">>, <<"api_key_instructions">> >>
            /\ apc' = "no_key"
       ELSE IF RunCondition(pressed, AppTicker(tickerText), CompanyName(companyText))
       THEN /\ apc' = "init"
            /\ UNCHANGED shown
       ELSE /\ shown' = Append(shown, <<"welcome">>)
            /\ apc' = "welcome"
    /\ UNCHANGED <<apiKey, pressed, tickerText, companyText, uploaded_files,
                   processed_files, supplemental_contents, llmCalls, llmArg,
                   chartsBuilt>>
    /\ UNCHANGED nonAppVars

\* run_analysis: st.secrets[...], DataFetcher(ticker), FileProcessor(),
\* LLMClient(api_key); a constructor may raise
Initialize ==
    /\ apc = "init"
    /\ \E raises \in BOOLEAN :
          IF raises THEN Caught ELSE apc' = "fetch" /\ UNCHANGED shown
    /\ UNCHANGED <<apiKey, pressed, tickerText, companyText, uploaded_files,
                   processed_files, supplemental_contents, llmCalls, llmArg,
                   chartsBuilt>>
    /\ UNCHANGED nonAppVars

\* FetchPrices going on with an empty price history
FetchPricesNoStop ==
    /\ apc = "fetch"
    /\ PriceHistoryCall
    /\ apc' = "financial"
    /\ UNCHANGED shown
    /\ UNCHANGED <<apiKey, pressed, tickerText, companyText, uploaded_files,
                   processed_files, supplemental_contents, llmCalls, llmArg,
                   chartsBuilt>>
    /\ UNCHANGED nonAppFetchVars

\* run_analysis: price_history = data_fetcher.get_price_history(...);
\* `if price_history.empty:` st.error, st.info, return
FetchPrices ==
    /\ apc = "fetch"
    /\ PriceHistoryCall
    /\ IF ret' = "empty"
       THEN /\ shown' = shown \o << <<"fetch_error">>, <<"fetch_hint">> >>
            /\ apc' = "stopped"
       ELSE /\ apc' = "financial"
            /\ UNCHANGED shown
    /\ UNCHANGED <<apiKey, pressed, tickerText, companyText, uploaded_files,
                   processed_files, supplemental_contents, llmCalls, llmArg,
                   chartsBuilt>>
    /\ UNCHANGED nonAppFetchVars

\* run_analysis: format_financial_data_for_llm(), format_price_data_for_llm(),
\* is_pre_revenue() and its st.info.  What the DataFetcher caches in these
\* calls is not followed here: the answer of is_pre_revenue is any Boolean,
\* and any of the calls may raise.
FormatData ==
    /\ apc = "financial"
    /\ \E outcome \in {"raise", "pre_revenue", "revenue"} :
          CASE outcome = "raise" -> Caught
            [] outcome = "pre_revenue" ->
                  /\ shown' = Append(shown, <<"pre_revenue_info">>)
                  /\ apc' = "chart"
            [] outcome = "revenue" ->
                  /\ apc' = "chart"
                  /\ UNCHANGED shown
    /\ UNCHANGED <<apiKey, pressed, tickerText, companyText, uploaded_files,
                   processed_files, supplemental_contents, llmCalls, llmArg,
                   chartsBuilt>>
    /\ UNCHANGED nonAppVars

\* run_analysis: ChartBuilder(price_history, ticker), create_candlestick_chart
BuildChart ==
    /\ apc = "chart"
    /\ chartsBuilt' = chartsBuilt + 1
    /\ \E raises \in BOOLEAN :
          IF raises THEN Caught ELSE apc' = "files" /\ UNCHANGED shown
    /\ UNCHANGED <<apiKey, pressed, tickerText, companyText, uploaded_files,
                   processed_files, supplemental_contents, llmCalls, llmArg>>
    /\ UNCHANGED nonAppVars

\* process_multiple_files: result = self.process_file(file.read(), file.name)
\* for the next uploaded file; file.read() yields bytes
CallProcessFile ==
    /\ apc = "files"
    /\ Len(processed_files) < Len(uploaded_files)
    /\ filename' = uploaded_files[Len(processed_files) + 1]
    /\ contentForm' = "bytes"
    /\ lib' \in {"ok", "raises"}
    /\ result' = <<>>
    /\ extractionFailed' = FALSE
    /\ fpc' = "called"
    /\ apc' = "process_file"
    /\ UNCHANGED <<apiKey, pressed, tickerText, companyText, uploaded_files,
                   processed_files, supplemental_contents, shown, llmCalls,
                   llmArg, chartsBuilt>>
    /\ UNCHANGED nonAppFileVars

\* process_multiple_files: file.seek(0), which may raise as any call on the
\* uploaded file may, then results.append(result)
ReturnProcessFile ==
    /\ apc = "process_file"
    /\ fpc = "returned"
    /\ \E raises \in BOOLEAN :
          IF raises
          THEN Caught /\ UNCHANGED processed_files
          ELSE /\ processed_files' = Append(processed_files, result)
               /\ apc' = "files"
               /\ UNCHANGED shown
    /\ UNCHANGED <<apiKey, pressed, tickerText, companyText, uploaded_files,
                   supplemental_contents, llmCalls, llmArg, chartsBuilt>>
    /\ UNCHANGED nonAppVars

\* Keep accepting every processed file
KeepAll(pf) == TRUE

\* run_analysis: the else branch of `if "error" in pf:`
Keep(pf) == "error" \notin DOMAIN pf

\* run_analysis: st.warning(...) for every pf with an 'error' entry, in order
RECURSIVE Warnings(_)
Warnings(pfs) ==
    IF pfs = <<>> THEN <<>>
    ELSE (IF Keep(Head(pfs)) THEN <<>> ELSE << <<"warning", Head(pfs)["name"]>> >>)
         \o Warnings(Tail(pfs))

\* run_analysis: process_multiple_files has returned (or uploaded_files is
\* empty); `for pf in processed_files:` warns or appends
CollectResults ==
    /\ apc = "files"
    /\ Len(processed_files) = Len(uploaded_files)
    /\ supplemental_contents' = SelectSeq(processed_files, Keep)
    /\ shown' = shown \o Warnings(processed_files)
    /\ apc' = "llm"
    /\ UNCHANGED <<apiKey, pressed, tickerText, companyText, uploaded_files,
                   processed_files, llmCalls, llmArg, chartsBuilt>>
    /\ UNCHANGED nonAppVars

\* run_analysis: results = llm_client.run_full_analysis(...,
\* supplemental_contents=supplemental_contents if supplemental_contents else None)
RunFullAnalysis ==
    /\ apc = "llm"
    /\ llmCalls' = llmCalls + 1
    /\ llmArg' = IF supplemental_contents # <<>> THEN <<supplemental_contents>> ELSE <<>>
    /\ \E raises \in BOOLEAN :
          IF raises THEN Caught ELSE apc' = "report" /\ UNCHANGED shown
    /\ UNCHANGED <<apiKey, pressed, tickerText, companyText, uploaded_files,
                   processed_files, supplemental_contents, chartsBuilt>>
    /\ UNCHANGED nonAppVars

\* run_analysis: ReportGenerator(ticker, company_name),
\* generate_report_for_streamlit(...), the progress widgets are cleared
GenerateReport ==
    /\ apc = "report"
    /\ \E raises \in BOOLEAN :
          IF raises THEN Caught ELSE apc' = "display" /\ UNCHANGED shown
    /\ UNCHANGED <<apiKey, pressed, tickerText, companyText, uploaded_files,
                   processed_files, supplemental_contents, llmCalls, llmArg,
                   chartsBuilt>>
    /\ UNCHANGED nonAppVars

\* display_report: st.success(...)
DisplaySuccess ==
    /\ apc = "display"
    /\ shown' = Append(shown, <<"success">>)
    /\ apc' = "tabs"
    /\ UNCHANGED <<apiKey, pressed, tickerText, companyText, uploaded_files,
                   processed_files, supplemental_contents, llmCalls, llmArg,
                   chartsBuilt>>
    /\ UNCHANGED nonAppVars

\* display_report: the three tabs (report and downloads, chart and summary
\* from a second DataFetcher and ChartBuilder, raw sections); any of it may raise
DisplayTabs ==
    /\ apc = "tabs"
    /\ \E raises \in BOOLEAN :
          IF raises THEN Caught
          ELSE /\ shown' = Append(shown, <<"report">>)
               /\ apc' = "done"
    /\ UNCHANGED <<apiKey, pressed, tickerText, companyText, uploaded_files,
                   processed_files, supplemental_contents, llmCalls, llmArg,
                   chartsBuilt>>
    /\ UNCHANGED nonAppVars

NextApp ==
    \/ Main
    \/ Initialize
    \/ FetchPrices
    \/ FormatData
    \/ BuildChart
    \/ CallProcessFile
    \/ ProcessUnsupported
    \/ ProcessDocument
    \/ ProcessImage
    \/ ProcessData
    \/ ProcessText
    \/ ReturnProcessFile
    \/ CollectResults
    \/ RunFullAnalysis
    \/ GenerateReport
    \/ DisplaySuccess
    \/ DisplayTabs

SpecApp == InitApp /\ [][NextApp]_vars

(***************************************************************************)
(* Properties of the application (checked under SpecApp).                  *)
(***************************************************************************)
\* run_analysis has been entered in this script run
Started == apc \notin {"main", "no_key", "welcome"}

\* the page shows an entry of this kind
Shows(kind) == \E i \in 1..Len(shown) : shown[i][1] = kind

\* C11: run_analysis is entered only when the API key is configured, the
\* Generate button was pressed and the ticker and the company name are
\* non-empty after stripping blanks; in every other case main ends on the
\* API-key instructions (key missing or empty) or on the welcome page, and
\* then no price history was fetched, no component did anything and
\* run_full_analysis was not called.
C11_PipelineOnlyWhenReady ==
    LET ready == /\ apiKey = "set"
                 /\ pressed
                 /\ Strip(tickerText) # <<>>
                 /\ Strip(companyText) # <<>>
    IN  /\ (Started => ready)
        /\ (apc # "main" /\ ~ready =>
              /\ apc = (IF apiKey = "set" THEN "welcome" ELSE "no_key")
              /\ shown = (IF apiKey = "set"
                          THEN << <<"welcome">> >>
                          ELSE << <<"api_key_error">>, <<"api_key_instructions">> >>)
              /\ fcalls = 0
              /\ history = "None"
              /\ llmCalls = 0
              /\ chartsBuilt = 0
              /\ fpc = "idle")

C11_Witness ==
    /\ apc = "welcome"
    /\ apiKey = "set"
    /\ pressed
    /\ tickerText = <<" ", "a">>
    /\ companyText = <<" ">>
    /\ uploaded_files # <<>>

\* C17: when get_price_history returns the empty table, run_analysis shows
\* the two messages saying that data could not be fetched and returns at
\* once: run_full_analysis is never called, no ChartBuilder is constructed,
\* process_file is never entered, neither the success message nor the report
\* is shown, and nothing happens afterwards; and run_analysis never goes on
\* past the fetch with an empty history.
C17_EmptyHistoryStops ==
    /\ [](apc = "stopped" =>
            /\ history = "empty"
            /\ shown = << <<"fetch_error">>, <<"fetch_hint">> >>
            /\ llmCalls = 0
            /\ llmArg = <<>>
            /\ chartsBuilt = 0
            /\ fpc = "idle"
            /\ processed_files = <<>>
            /\ ~Shows("success")
            /\ ~Shows("report"))
    /\ [](Started /\ history = "empty" => apc = "stopped")
    /\ [][apc # "stopped"]_vars

C17_Witness ==
    /\ apc = "stopped"
    /\ failedFetch
    /\ Len(uploaded_files) = 2

\* the i-th processed file has an 'error' entry
HasError(i) == "error" \in DOMAIN processed_files[i]

\* positions of the uploaded files whose result has no 'error' entry
KeptIndices == { i \in 1..Len(processed_files) : ~HasError(i) }

\* the j-th smallest of them
NthKept(j) ==
    CHOOSE i \in KeptIndices : Cardinality({ m \in KeptIndices : m < i }) = j - 1

\* the loop over the processed files has run
Collected ==
    /\ apc \in {"llm", "report", "display", "tabs", "done", "failed"}
    /\ Len(processed_files) = Len(uploaded_files)

\* C18: once the uploaded files are processed, supplemental_contents holds
\* exactly the results without an 'error' entry, in upload order; the page
\* shows one warning per result with an 'error' entry and none for the
\* others; run_full_analysis receives that list, or None when it is empty, so
\* no result with an 'error' entry reaches it.
C18_OnlyErrorFreeFilesSent ==
    Collected =>
        /\ \A i \in 1..Len(processed_files) : processed_files[i]["name"] = uploaded_files[i]
        /\ Len(supplemental_contents) = Cardinality(KeptIndices)
        /\ \A j \in 1..Len(supplemental_contents) :
              supplemental_contents[j] = processed_files[NthKept(j)]
        /\ \A n \in UploadNames :
              Cardinality({ k \in 1..Len(shown) :
                              shown[k][1] = "warning" /\ shown[k][2] = n })
              = Cardinality({ i \in 1..Len(processed_files) :
                                HasError(i) /\ uploaded_files[i] = n })
        /\ (llmCalls = 0 => llmArg = <<>>)
        /\ (llmCalls > 0 =>
              /\ llmCalls = 1
              /\ llmArg = (IF KeptIndices = {} THEN <<>> ELSE <<supplemental_contents>>)
              /\ \A a \in 1..Len(llmArg) : \A j \in 1..Len(llmArg[a]) :
                    "error" \notin DOMAIN llmArg[a][j])

C18_Witness ==
    /\ apc = "done"
    /\ Len(uploaded_files) = 2
    /\ HasError(1)
    /\ ~HasError(2)
    /\ Len(llmArg) = 1
    /\ Len(llmArg[1]) = 1

\* the steps of run_analysis inside its try block that may raise
RaisingSteps == {"init", "financial", "chart", "process_file", "llm", "report", "tabs"}

\* positions of the error messages of the except clause on the page
ErrorEntries == { i \in 1..Len(shown) : shown[i][1] = "error" }

\* C24: an exception raised in any step of the pipeline of run_analysis
\* (initialisation, data formatting, chart building, file processing, LLM
\* analysis, report generation, report display) ends the run in the except
\* clause with exactly one error message, which names the exception and is
\* the last thing shown; the run ends there without going on, so nothing, and
\* in particular no success message and no report, is shown after the error.
\* The success message on the page of a failed run can only be the one
\* display_report showed before an exception raised in its tabs.  A run that
\* shows no error message did not fail.
C24_ExceptionsCaught ==
    /\ [](apc = "failed" <=> Shows("error"))
    /\ [](apc = "failed" =>
            /\ Cardinality(ErrorEntries) = 1
            /\ shown[Len(shown)][1] = "error"
            /\ shown[Len(shown)][2] \in RaisingSteps
            /\ ~Shows("report")
            /\ (Shows("success") <=> shown[Len(shown)][2] = "tabs")
            /\ (Shows("success") => shown[Len(shown) - 1] = <<"success">>))
    /\ [][apc # "failed"]_vars

C24_Witness ==
    /\ apc = "failed"
    /\ Len(uploaded_files) = 2
    /\ Len(processed_files) = 2
    /\ llmCalls = 1
    /\ shown[Len(shown)] = <<"error", "tabs">>
    /\ shown[Len(shown) - 1] = <<"success">>

====
